---- MODULE Spec2Model ----
(***************************************************************************)
(* HeliosEngine build tooling: scripts/build.py (the orchestrator) and     *)
(* scripts/configure.py (the configuration resolver it spawns), modelled   *)
(* as one sequential state machine.  The external collaborators (cmake,    *)
(* install_deps.py, the Visual Studio environment script, lint.py,         *)
(* format.py) are nondeterministic: they return an exit status and have    *)
(* the file-system effect the scripts rely on.                             *)
(***************************************************************************)
EXTENDS Integers, Sequences, FiniteSets, TLC

VARIABLES
    cli,          \* the orchestrator's parsed command line (build.py parse_arguments)
    host,         \* the host: platform, commands on PATH, Visual Studio facts, scripts
    fs,           \* build/<build_type>/<platform>/ directories of the project
    fs0,          \* the directories as they were when the run started
    pc,           \* position of the run
    args_type,    \* args.type of build.py (main overwrites it after a selection)
    build_dir,    \* build.py main: build_dir
    build_type,   \* build.py main: build_type
    needs_configure, \* build.py main: needs_configure
    cmd,          \* the configure.py command line built by run_configure
    config,       \* configure.py: the BuildConfig object
    environ,      \* configure.py: os.environ of the configure process
    rc,           \* return code of the configure.py process
    exit_code,    \* exit code of the orchestrator (-1 while it runs)
    handed,       \* the Configurations handed to `cmake -S -B` (configure.py)
    built,        \* the (build_dir, build_type) pairs handed to `cmake --build`
    log,          \* external invocations and prompts, in order
    cancelled,    \* the prompts at which the user cancelled
    subproc,      \* exit statuses of the collaborators that ran in this run (-1: did not run)
    bootstrap,    \* outcomes of the environment bootstraps of this run, in order
    cache_file,   \* a CMakeCache.txt as text, for the runs of the cache reader alone
    cache_dict    \* who read cache_file and what read_cmake_cache returned for it

vars == <<cli, host, fs, fs0, pc, args_type, build_dir, build_type,
          needs_configure, cmd, config, environ, rc, exit_code, handed,
          built, log, cancelled, subproc, bootstrap, cache_file, cache_dict>>

----------------------------------------------------------------------------
(* Bounds of the model *)

\* exit statuses of an external tool range over 0..MaxStatus
MaxStatus == 2

\* a CMakeCache.txt given to the cache reader has at most MaxLines lines
MaxLines == 2

----------------------------------------------------------------------------
(* Values *)

None == "None"
BuildTypes == {"Debug", "Release", "RelWithDebInfo"}
CompilerChoices == {"gcc", "clang", "clang-cl", "msvc", "cl"}
GeneratorChoices == {"Ninja", "Unix Makefiles", "Visual Studio 17 2022"}
PlatformChoices == {"linux", "windows", "macos"}
Systems == {"Windows", "Linux", "Darwin"}
\* Optional[bool]
Tri == {"None", "True", "False"}
Statuses == 0..MaxStatus

\* Text of cache values whose content the scripts inspect, as character sequences
S_gpp == <<"g", "+", "+">>
S_gcc == <<"g", "c", "c">>
S_clangpp == <<"c", "l", "a", "n", "g", "+", "+">>
S_clang == <<"c", "l", "a", "n", "g">>
S_clang_cl == <<"c", "l", "a", "n", "g", "-", "c", "l">>
S_cl_exe == <<"c", "l", ".", "e", "x", "e">>
S_cl == <<"c", "l">>
S_msvc == <<"m", "s", "v", "c">>
S_bin == <<"/", "b", "i", "n", "/">>
S_icpx == <<"i", "c", "p", "x">>
S_MSVC_dir == <<"C", ":", "/", "M", "S", "V", "C", "/">>

\* Python: sub in s
Contains(sub, s) ==
    \E i \in 1..(Len(s) - Len(sub) + 1) : SubSeq(s, i, i + Len(sub) - 1) = sub

\* Python: s.lower(), on the letters that occur in the modelled values
LowerChar(c) ==
    CASE c = "C" -> "c"
      [] c = "M" -> "m"
      [] c = "S" -> "s"
      [] c = "V" -> "v"
      [] OTHER -> c

Lower(s) == [i \in 1..Len(s) |-> LowerChar(s[i])]

\* Python: Path(s).name
PathName(s) ==
    LET seps == {i \in 1..Len(s) : s[i] = "/"}
        last == IF seps = {} THEN 0 ELSE CHOOSE i \in seps : \A j \in seps : j <= i
    IN SubSeq(s, last + 1, Len(s))

\* build.py run_configure: compiler id derived from the cached CMAKE_CXX_COMPILER
BuildCachedCompiler(cxx) ==
    IF Contains(S_gpp, cxx) \/ Contains(S_gcc, cxx) THEN "gcc"
    ELSE IF Contains(S_clangpp, cxx) \/ Contains(S_clang, cxx) THEN "clang"
    ELSE IF Contains(S_cl_exe, cxx) \/ Contains(S_msvc, Lower(cxx)) THEN "msvc"
    ELSE None

\* configure.py setup_compiler: compiler id derived from the cached CMAKE_CXX_COMPILER
ConfigureCachedCompiler(cxx) ==
    IF Contains(S_gpp, cxx) \/ Contains(S_gcc, cxx) THEN "gcc"
    ELSE IF Contains(S_clang_cl, cxx) THEN "clang-cl"
    ELSE IF Contains(S_clangpp, cxx) \/ Contains(S_clang, cxx) THEN "clang"
    ELSE IF \/ Contains(S_cl_exe, cxx)
            \/ PathName(cxx) = S_cl
            \/ Contains(S_msvc, Lower(cxx)) THEN "msvc"
    ELSE None

\* configure.py CMakeBuilder.configure: cxx_compiler of each compiler id
CxxOf(compiler) ==
    CASE compiler = "gcc" -> "g++"
      [] compiler = "clang" -> "clang++"
      [] compiler = "clang-cl" -> "clang-cl"
      [] OTHER -> "cl"

----------------------------------------------------------------------------
(* Platform, workspace directories, CMakeCache.txt *)

\* get_platform_name
get_platform_name(system) ==
    CASE system = "Windows" -> "windows"
      [] system = "Linux" -> "linux"
      [] system = "Darwin" -> "macos"
      [] OTHER -> "unknown"

\* str.lower() of a build type
LowerBuildType(bt) ==
    CASE bt = "Debug" -> "debug"
      [] bt = "Release" -> "release"
      [] bt = "RelWithDebInfo" -> "relwithdebinfo"
      [] OTHER -> bt

BuildTypeDirs == {LowerBuildType(bt) : bt \in BuildTypes}

\* a workspace directory build/<build_type>/<platform> is the pair of its components
Dirs == BuildTypeDirs \X PlatformChoices
NoDir == <<None, None>>

\* build.py get_build_dir
get_build_dir(system, bt) == <<LowerBuildType(bt), get_platform_name(system)>>

\* a directory keyed by the build type alone
Config_get_build_dir_by_type(system, cfg) ==
    <<IF cfg.build_type # None THEN LowerBuildType(cfg.build_type) ELSE "release",
      "linux">>

\* configure.py BuildConfig.get_build_dir
Config_get_build_dir(system, cfg) ==
    <<IF cfg.build_type # None THEN LowerBuildType(cfg.build_type) ELSE "release",
      get_platform_name(system)>>

\* build.py detect_build_type_from_dir
detect_build_type_from_dir(d) ==
    CASE d[1] = "relwithdebinfo" -> "RelWithDebInfo"
      [] d[1] = "debug" -> "Debug"
      [] d[1] = "release" -> "Release"
      [] OTHER -> "Release"

NoCache ==
    [present |-> FALSE, CMAKE_CXX_COMPILER |-> <<>>, CMAKE_GENERATOR |-> None,
     HELIOS_BUILD_CORE_ONLY |-> None, HELIOS_BUILD_TESTS |-> None,
     HELIOS_BUILD_EXAMPLES |-> None]

NoWorkspace ==
    [exists |-> FALSE, cache |-> NoCache, conan_toolchain |-> FALSE,
     conanbuild |-> FALSE, mtime |-> 0]

\* build.py is_configured
is_configured(f, d) == d \in Dirs /\ f[d].exists /\ f[d].cache.present

\* build.py read_cmake_cache, on the keys the scripts read
read_cmake_cache(f, d) ==
    IF d \in Dirs /\ f[d].exists /\ f[d].cache.present THEN f[d].cache ELSE NoCache

----------------------------------------------------------------------------
(* CMakeCache.txt as text (read_cmake_cache of build.py and of configure.py) *)

\* characters that Python's str.strip() removes, of those in the modelled lines
Whitespace == {" "}

RECURSIVE LStrip(_)
LStrip(s) == IF s # <<>> /\ Head(s) \in Whitespace THEN LStrip(Tail(s)) ELSE s

RECURSIVE RStrip(_)
RStrip(s) ==
    IF s # <<>> /\ s[Len(s)] \in Whitespace THEN RStrip(SubSeq(s, 1, Len(s) - 1)) ELSE s

\* Python: s.strip()
Strip(s) == RStrip(LStrip(s))

\* Python: s.startswith(prefix)
StartsWith(s, prefix) == Len(s) >= Len(prefix) /\ SubSeq(s, 1, Len(prefix)) = prefix

\* Python: s.find(c) + 1 for a character c (0: c does not occur)
Find(s, c) ==
    LET at == {i \in 1..Len(s) : s[i] = c}
    IN IF at = {} THEN 0 ELSE CHOOSE i \in at : \A j \in at : i <= j

\* Python: s.split(c, 1)[0], which is also s.split(c)[0]
BeforeFirst(s, c) == IF Find(s, c) = 0 THEN s ELSE SubSeq(s, 1, Find(s, c) - 1)

\* Python: s.split(c, 1)[1], for s that contains c
AfterFirst(s, c) == SubSeq(s, Find(s, c) + 1, Len(s))

\* Python: {}
EmptyDict == [k \in {} |-> <<>>]

\* a dict assignment that keeps the value a key already has
Put_first_wins(m, key, value) ==
    [k \in DOMAIN m \cup {key} |-> IF k \in DOMAIN m THEN m[k] ELSE value]

\* Python: m[key] = value
Put(m, key, value) ==
    [k \in DOMAIN m \cup {key} |-> IF k = key THEN value ELSE m[k]]

\* read_cmake_cache: the body of the loop over the lines, on the dict m
ReadCacheLine(m, raw) ==
    LET line == Strip(raw)
    IN IF line = <<>> \/ StartsWith(line, <<"#">>) \/ StartsWith(line, <<"/", "/">>)
       THEN m
       ELSE IF Contains(<<"=">>, line) /\ Contains(<<":">>, line)
       THEN LET key_type == BeforeFirst(line, "=")
                value == AfterFirst(line, "=")
            IN Put(m, BeforeFirst(key_type, ":"), value)
       ELSE m

\* read_cmake_cache: the loop over the lines of the file
RECURSIVE ReadCacheLines(_, _)
ReadCacheLines(m, lines) ==
    IF lines = <<>> THEN m
    ELSE ReadCacheLines(ReadCacheLine(m, Head(lines)), Tail(lines))

\* a CMakeCache.txt: whether it exists, whether reading it succeeds, its lines
NoCacheFile == [exists |-> FALSE, readable |-> FALSE, lines |-> <<>>]

\* no cache file has been read
NotRead == [reader |-> None, dict |-> EmptyDict]

\* build.py read_cmake_cache, on the text of the file
Build_read_cmake_cache(file) ==
    IF ~file.exists THEN EmptyDict
    ELSE IF ~file.readable THEN EmptyDict
    ELSE ReadCacheLines(EmptyDict, file.lines)

\* configure.py read_cmake_cache, on the text of the file
Configure_read_cmake_cache(file) ==
    IF ~file.exists THEN EmptyDict
    ELSE IF ~file.readable THEN EmptyDict
    ELSE ReadCacheLines(EmptyDict, file.lines)

----------------------------------------------------------------------------
(* Enumeration of the configured directories *)

\* a sort key that tells no build type from another
sort_key_same(d) == 0

\* build.py find_all_configured_build_dirs: sort_key
sort_key(d) ==
    CASE d[1] = "debug" -> 0
      [] d[1] = "release" -> 1
      [] d[1] = "relwithdebinfo" -> 2
      [] OTHER -> 999

\* the order in which iterdir() lists the directories under build/
IterdirOrder ==
    <<(<<"release", "linux">>), (<<"release", "macos">>), (<<"release", "windows">>),
      (<<"debug", "linux">>), (<<"debug", "macos">>), (<<"debug", "windows">>),
      (<<"relwithdebinfo", "linux">>), (<<"relwithdebinfo", "macos">>),
      (<<"relwithdebinfo", "windows">>)>>

\* Python sorted(seq, key): stable, by insertion
RECURSIVE SortedByKey(_)
SortedByKey(seq) ==
    IF seq = <<>> THEN <<>>
    ELSE LET rest == SortedByKey(Tail(seq))
             x == Head(seq)
             before == SelectSeq(rest, LAMBDA y : sort_key(y) < sort_key(x))
             after == SelectSeq(rest, LAMBDA y : sort_key(y) >= sort_key(x))
         IN before \o <<x>> \o after

\* build.py find_all_configured_build_dirs
find_all_configured_build_dirs(f) ==
    SortedByKey(SelectSeq(IterdirOrder, LAMBDA d : is_configured(f, d)))

\* build.py find_configured_build_dir: the configured directory modified last
find_configured_build_dir(f) ==
    LET conf == {d \in Dirs : is_configured(f, d)}
    IN IF conf = {} THEN NoDir
       ELSE CHOOSE d \in conf : \A e \in conf : f[e].mtime <= f[d].mtime

\* the modification time the next write of a cache file gets
NextMtime(f) ==
    LET times == {f[d].mtime : d \in Dirs}
    IN 1 + (CHOOSE t \in times : \A u \in times : u <= t)

----------------------------------------------------------------------------
(* Toolchain detection (configure.py CompilerDetector, BuildSystemSelector) *)

\* configure.py check_command: shutil.which over the PATH of the environment
check_command(env, c) == c \in env.PATH

\* CompilerDetector._setup_clang_cl_path: the environment it leaves
setup_clang_cl_path(h, env) ==
    IF h.system # "Windows" THEN env
    ELSE IF check_command(env, "clang-cl") THEN env
    ELSE IF "clang-cl" \in h.llvm_bin THEN [env EXCEPT !.PATH = @ \cup h.llvm_bin]
    ELSE env

\* CompilerDetector.detect_msvc
detect_msvc(h, env) ==
    IF h.system # "Windows" THEN [found |-> FALSE, vs_version |-> None]
    ELSE IF h.vs = "vswhere" /\ h.vs_script = "vcvarsall.bat"
    THEN [found |-> TRUE, vs_version |-> h.vs_version]
    ELSE IF check_command(env, "cl") THEN [found |-> TRUE, vs_version |-> None]
    ELSE [found |-> FALSE, vs_version |-> None]

\* a detection that is content with either of the two executables
detect_gcc_either(env) == check_command(env, "gcc") \/ check_command(env, "g++")

\* CompilerDetector.detect_gcc
detect_gcc(env) == check_command(env, "gcc") /\ check_command(env, "g++")

\* CompilerDetector.detect_clang: the result and the environment it leaves
detect_clang(h, env) ==
    IF h.system = "Windows"
    THEN LET env1 == IF check_command(env, "clang-cl") THEN env
                     ELSE setup_clang_cl_path(h, env)
             has_clang_cl == check_command(env1, "clang-cl")
             has_clang == check_command(env1, "clang") /\ check_command(env1, "clang++")
         IN [found |-> has_clang_cl \/ has_clang,
             variant |-> IF has_clang_cl THEN "clang-cl"
                         ELSE IF has_clang THEN "clang" ELSE None,
             env |-> env1]
    ELSE LET has_clang == check_command(env, "clang") /\ check_command(env, "clang++")
         IN [found |-> has_clang,
             variant |-> IF has_clang THEN "clang" ELSE None,
             env |-> env]

\* BuildSystemSelector.detect_ninja
detect_ninja(env) == check_command(env, "ninja")

\* BuildSystemSelector.detect_make
detect_make(env) == check_command(env, "make") \/ check_command(env, "mingw32-make")

\* BuildSystemSelector.detect_msbuild
detect_msbuild(h, env) ==
    LET m == detect_msvc(h, env)
    IN IF h.system # "Windows" \/ ~m.found THEN [found |-> FALSE, generator |-> None]
       ELSE IF m.vs_version = "2022"
       THEN [found |-> TRUE, generator |-> "Visual Studio 17 2022"]
       ELSE IF m.vs_version = "2019"
       THEN [found |-> TRUE, generator |-> "Visual Studio 16 2019"]
       ELSE IF m.vs_version = "2017"
       THEN [found |-> TRUE, generator |-> "Visual Studio 15 2017"]
       ELSE IF check_command(env, "msbuild")
       THEN [found |-> TRUE, generator |-> "Visual Studio 17 2022"]
       ELSE [found |-> FALSE, generator |-> None]

----------------------------------------------------------------------------
(* Prompts *)

\* what input() can return or raise at a numbered-choice prompt
Cancels == {"EOFError", "KeyboardInterrupt"}
ChoiceAnswers == {"", "1", "2", "3"} \cup Cancels
\* what ask_yes_no returns for an answer: it catches a cancel and returns False
YesNoAnswers == {"", "y", "n"} \cup Cancels

\* configure.py ask_yes_no
ask_yes_no(answer, default) ==
    IF answer \in Cancels THEN FALSE
    ELSE IF answer = "" THEN default
    ELSE answer = "y"

\* the answers a step draws from: those of the prompt when it is shown
Answers(shown, answers) == IF shown THEN answers ELSE {""}

\* the exit statuses a step draws from: those of the tool when it runs
ScriptStatuses(runs) == IF runs THEN Statuses ELSE {0}

\* the environment a process of the run starts with
HostEnvironment(h) == h.environ

\* exit status of a Python process ended by an exception nobody catches
UncaughtExit(exception) == IF exception = "KeyboardInterrupt" THEN 130 ELSE 1

----------------------------------------------------------------------------
(* Compiler resolution (configure.py CompilerDetector) *)

SetCompiler(cfg, compiler) ==
    [cfg EXCEPT !.compiler = compiler, !.cxx_compiler = CxxOf(compiler)]

\* select_compiler_interactive asks only when two compilers are found
CompilerPromptShown(h, env) ==
    IF h.system = "Windows"
    THEN detect_msvc(h, env).found /\ detect_clang(h, env).found
    ELSE detect_gcc(env) /\ detect_clang(h, env).found

\* CompilerDetector.select_compiler_interactive
select_compiler_interactive(h, cfg, env, choice) ==
    LET c == detect_clang(h, env)
    IN IF h.system = "Windows"
       THEN LET m == detect_msvc(h, env)
            IN IF ~m.found /\ ~c.found
               THEN [ok |-> FALSE, config |-> cfg, env |-> c.env]
               ELSE IF m.found /\ ~c.found
               THEN [ok |-> TRUE, config |-> SetCompiler(cfg, "msvc"), env |-> c.env]
               ELSE IF c.found /\ ~m.found
               THEN [ok |-> TRUE, config |-> SetCompiler(cfg, c.variant), env |-> c.env]
               ELSE IF choice = "2"
               THEN [ok |-> TRUE, config |-> SetCompiler(cfg, c.variant), env |-> c.env]
               ELSE [ok |-> TRUE, config |-> SetCompiler(cfg, "msvc"), env |-> c.env]
       ELSE LET has_gcc == detect_gcc(env)
            IN IF ~has_gcc /\ ~c.found
               THEN [ok |-> FALSE, config |-> cfg, env |-> env]
               ELSE IF has_gcc /\ ~c.found
               THEN [ok |-> TRUE, config |-> SetCompiler(cfg, "gcc"), env |-> env]
               ELSE IF c.found /\ ~has_gcc
               THEN [ok |-> TRUE, config |-> SetCompiler(cfg, "clang"), env |-> env]
               ELSE IF choice = "2"
               THEN [ok |-> TRUE, config |-> SetCompiler(cfg, "clang"), env |-> env]
               ELSE [ok |-> TRUE, config |-> SetCompiler(cfg, "gcc"), env |-> env]

\* validation that accepts whatever compiler is set
ValidateCompiler_accepts(h, cfg, env) ==
    [ok |-> TRUE, config |-> SetCompiler(cfg, cfg.compiler), env |-> env]

\* setup_compiler, the branch that validates a compiler that is already set
ValidateCompiler(h, cfg, env) ==
    IF h.system = "Windows"
    THEN IF cfg.compiler \in {"msvc", "cl"}
         THEN LET m == detect_msvc(h, env)
              IN IF ~m.found THEN [ok |-> FALSE, config |-> cfg, env |-> env]
                 ELSE [ok |-> TRUE,
                       config |-> [SetCompiler(cfg, "msvc") EXCEPT
                                      !.vs_version = m.vs_version],
                       env |-> env]
         ELSE IF cfg.compiler \in {"clang", "clang-cl"}
         THEN LET env1 == IF cfg.compiler = "clang-cl"
                          THEN setup_clang_cl_path(h, env) ELSE env
                  c == detect_clang(h, env1)
              IN IF ~c.found THEN [ok |-> FALSE, config |-> cfg, env |-> c.env]
                 ELSE IF cfg.compiler = "clang-cl"
                 THEN IF c.variant # "clang-cl" /\ ~check_command(c.env, "clang-cl")
                      THEN [ok |-> FALSE, config |-> cfg, env |-> c.env]
                      ELSE [ok |-> TRUE, config |-> SetCompiler(cfg, "clang-cl"),
                            env |-> c.env]
                 ELSE IF /\ c.variant = "clang-cl"
                         /\ ~(check_command(c.env, "clang") /\ check_command(c.env, "clang++"))
                      THEN [ok |-> TRUE, config |-> SetCompiler(cfg, "clang-cl"),
                            env |-> c.env]
                      ELSE [ok |-> TRUE, config |-> SetCompiler(cfg, "clang"),
                            env |-> c.env]
         ELSE [ok |-> FALSE, config |-> cfg, env |-> env]
    ELSE IF cfg.compiler = "gcc"
         THEN IF ~detect_gcc(env) THEN [ok |-> FALSE, config |-> cfg, env |-> env]
              ELSE [ok |-> TRUE, config |-> [cfg EXCEPT !.cxx_compiler = "g++"],
                    env |-> env]
         ELSE IF cfg.compiler = "clang"
         THEN IF ~detect_clang(h, env).found
              THEN [ok |-> FALSE, config |-> cfg, env |-> env]
              ELSE [ok |-> TRUE, config |-> [cfg EXCEPT !.cxx_compiler = "clang++"],
                    env |-> env]
         ELSE [ok |-> FALSE, config |-> cfg, env |-> env]

\* auto-detection that tries clang before gcc
AutoDetectCompiler_clang_first(h, cfg, env) ==
    IF detect_clang(h, env).found
    THEN [ok |-> TRUE, config |-> SetCompiler(cfg, detect_clang(h, env).variant),
          env |-> detect_clang(h, env).env]
    ELSE IF detect_gcc(env)
    THEN [ok |-> TRUE, config |-> SetCompiler(cfg, "gcc"), env |-> env]
    ELSE [ok |-> FALSE, config |-> cfg, env |-> env]

\* setup_compiler, non-interactive auto-detection
AutoDetectCompiler(h, cfg, env) ==
    IF h.system = "Windows"
    THEN LET m == detect_msvc(h, env)
             c == detect_clang(h, env)
         IN IF m.found
            THEN [ok |-> TRUE,
                  config |-> [SetCompiler(cfg, "msvc") EXCEPT !.vs_version = m.vs_version],
                  env |-> c.env]
            ELSE IF c.found
            THEN [ok |-> TRUE, config |-> SetCompiler(cfg, c.variant), env |-> c.env]
            ELSE [ok |-> FALSE, config |-> cfg, env |-> c.env]
    ELSE IF detect_gcc(env)
         THEN [ok |-> TRUE, config |-> SetCompiler(cfg, "gcc"), env |-> env]
         ELSE IF detect_clang(h, env).found
         THEN [ok |-> TRUE, config |-> SetCompiler(cfg, "clang"), env |-> env]
         ELSE [ok |-> FALSE, config |-> cfg, env |-> env]

\* the compiler setup_compiler takes from the cache of the build directory
CompilerFromCache(h, cfg, f) ==
    LET cache == read_cmake_cache(f, Config_get_build_dir(h.system, cfg))
    IN IF cache.present /\ cache.CMAKE_CXX_COMPILER # <<>>
       THEN ConfigureCachedCompiler(cache.CMAKE_CXX_COMPILER)
       ELSE None

\* setup_compiler asks (through select_compiler_interactive) in this case only
SetupCompilerPromptShown(h, cfg, env, f) ==
    /\ cfg.compiler = None
    /\ CompilerFromCache(h, cfg, f) = None
    /\ cfg.interactive
    /\ CompilerPromptShown(h, env)

\* a setup_compiler that settles nothing and reports success
setup_compiler_skipped(h, cfg, env, f, choice) ==
    [ok |-> TRUE, config |-> cfg, env |-> env]

\* CompilerDetector.setup_compiler
setup_compiler(h, cfg, env, f, choice) ==
    IF cfg.compiler # None THEN ValidateCompiler(h, cfg, env)
    ELSE LET cached == CompilerFromCache(h, cfg, f)
         IN IF cached # None
            THEN [ok |-> TRUE, config |-> SetCompiler(cfg, cached), env |-> env]
            ELSE IF cfg.interactive
            THEN select_compiler_interactive(h, cfg, env, choice)
            ELSE AutoDetectCompiler(h, cfg, env)

----------------------------------------------------------------------------
(* Build system resolution (configure.py BuildSystemSelector) *)

\* select_build_system_interactive asks only when two build systems are found
BuildSystemPromptShown(h, env) ==
    IF h.system = "Windows"
    THEN detect_msbuild(h, env).found /\ detect_ninja(env)
    ELSE detect_ninja(env) /\ detect_make(env)

\* BuildSystemSelector.select_build_system_interactive
select_build_system_interactive(h, cfg, env, choice) ==
    IF h.system = "Windows"
    THEN LET b == detect_msbuild(h, env)
             has_ninja == detect_ninja(env)
         IN IF ~b.found /\ ~has_ninja THEN [ok |-> FALSE, config |-> cfg]
            ELSE IF has_ninja /\ ~b.found
            THEN [ok |-> TRUE, config |-> [cfg EXCEPT !.build_system = "Ninja"]]
            ELSE IF b.found /\ ~has_ninja
            THEN [ok |-> TRUE, config |-> [cfg EXCEPT !.build_system = b.generator]]
            ELSE IF choice = "1"
            THEN [ok |-> TRUE, config |-> [cfg EXCEPT !.build_system = b.generator]]
            ELSE [ok |-> TRUE, config |-> [cfg EXCEPT !.build_system = "Ninja"]]
    ELSE LET has_ninja == detect_ninja(env)
             has_make == detect_make(env)
         IN IF ~has_ninja /\ ~has_make THEN [ok |-> FALSE, config |-> cfg]
            ELSE IF has_ninja /\ ~has_make
            THEN [ok |-> TRUE, config |-> [cfg EXCEPT !.build_system = "Ninja"]]
            ELSE IF has_make /\ ~has_ninja
            THEN [ok |-> TRUE, config |-> [cfg EXCEPT !.build_system = "Make"]]
            ELSE IF choice = "2"
            THEN [ok |-> TRUE, config |-> [cfg EXCEPT !.build_system = "Make"]]
            ELSE [ok |-> TRUE, config |-> [cfg EXCEPT !.build_system = "Ninja"]]

\* Python: build_system.lower(), on the generator names of the model
LowerGenerator(g) ==
    CASE g = "Ninja" -> "ninja"
      [] g = "Make" -> "make"
      [] g = "Unix Makefiles" -> "unix makefiles"
      [] g = "Visual Studio 17 2022" -> "visual studio 17 2022"
      [] g = "Visual Studio 16 2019" -> "visual studio 16 2019"
      [] g = "Visual Studio 15 2017" -> "visual studio 15 2017"
      [] OTHER -> g

\* setup_build_system, the branch that validates a build system that is already set
ValidateBuildSystem(h, cfg, env) ==
    LET build_sys_lower == LowerGenerator(cfg.build_system)
    IN IF build_sys_lower = "ninja"
       THEN IF ~detect_ninja(env) THEN [ok |-> FALSE, config |-> cfg]
            ELSE [ok |-> TRUE, config |-> [cfg EXCEPT !.build_system = "Ninja"]]
       ELSE IF build_sys_lower \in {"make", "unix makefiles"}
       THEN IF ~detect_make(env) THEN [ok |-> FALSE, config |-> cfg]
            ELSE [ok |-> TRUE, config |-> [cfg EXCEPT !.build_system = "Unix Makefiles"]]
       ELSE IF build_sys_lower \in {"msbuild", "visual studio"}
       THEN LET b == detect_msbuild(h, env)
            IN IF ~b.found THEN [ok |-> FALSE, config |-> cfg]
               ELSE [ok |-> TRUE, config |-> [cfg EXCEPT !.build_system = b.generator]]
       ELSE [ok |-> TRUE, config |-> cfg]

\* setup_build_system, non-interactive auto-detection
AutoDetectBuildSystem(h, cfg, env) ==
    IF h.system = "Windows"
    THEN IF detect_ninja(env)
         THEN [ok |-> TRUE, config |-> [cfg EXCEPT !.build_system = "Ninja"]]
         ELSE LET b == detect_msbuild(h, env)
              IN IF b.found
                 THEN [ok |-> TRUE, config |-> [cfg EXCEPT !.build_system = b.generator]]
                 ELSE [ok |-> FALSE, config |-> cfg]
    ELSE IF detect_ninja(env)
         THEN [ok |-> TRUE, config |-> [cfg EXCEPT !.build_system = "Ninja"]]
         ELSE IF detect_make(env)
         THEN [ok |-> TRUE, config |-> [cfg EXCEPT !.build_system = "Unix Makefiles"]]
         ELSE [ok |-> FALSE, config |-> cfg]

\* setup_build_system asks (through select_build_system_interactive) in this case only
SetupBuildSystemPromptShown(h, cfg, env) ==
    cfg.build_system = None /\ cfg.interactive /\ BuildSystemPromptShown(h, env)

\* BuildSystemSelector.setup_build_system
setup_build_system(h, cfg, env, choice) ==
    IF cfg.build_system # None THEN ValidateBuildSystem(h, cfg, env)
    ELSE IF cfg.interactive THEN select_build_system_interactive(h, cfg, env, choice)
    ELSE AutoDetectBuildSystem(h, cfg, env)

----------------------------------------------------------------------------
(* Environment bootstrap (setup_msvc_environment) *)

\* the tools a Visual Studio developer environment puts on PATH
VCTools == {"cl", "mt", "link"}

\* what `"<script>" amd64 && set` can print: the environment with the developer
\* variables added, the environment as it was (the script set nothing), or
\* lines for the developer variables only
ScriptDumps(env) ==
    {[k \in DOMAIN env \cup {"INCLUDE"} |->
         IF k = "PATH" THEN env.PATH \cup VCTools
         ELSE IF k = "INCLUDE" THEN "vc" ELSE env[k]],
     env,
     [PATH |-> env.PATH \cup VCTools, INCLUDE |-> "vc"]}

\* an import that replaces the environment by what the script printed
ImportEnvironment_replace(env, dump) == dump

\* the loop that imports the dumped key=value lines: overwrite or add
ImportEnvironment(env, dump) ==
    [k \in DOMAIN env \cup DOMAIN dump |-> IF k \in DOMAIN dump THEN dump[k] ELSE env[k]]

\* the Visual Studio installation the search finds: vswhere (at either of its two
\* locations), then the well-known installation directories
FindVisualStudio(h) == h.vs \in {"vswhere", "fallback_vswhere", "common"}

\* a bootstrapper that does not look at the compiler: it imports the developer
\* environment for every compiler that is used with Ninja on Windows
Configure_setup_msvc_environment_any_compiler(h, cfg, env, status, dump) ==
    IF h.system # "Windows" THEN [ok |-> TRUE, env |-> env, outcome |-> "not_needed"]
    ELSE IF cfg.build_system # None /\ cfg.build_system # "Ninja"
    THEN [ok |-> TRUE, env |-> env, outcome |-> "not_needed"]
    ELSE IF check_command(env, "cl")
    THEN [ok |-> TRUE, env |-> env, outcome |-> "fast_path"]
    ELSE IF ~FindVisualStudio(h)
    THEN [ok |-> FALSE, env |-> env, outcome |-> "vs_not_found"]
    ELSE IF h.vs_script = None
    THEN [ok |-> FALSE, env |-> env, outcome |-> "script_not_found"]
    ELSE IF status # 0
    THEN [ok |-> FALSE, env |-> env, outcome |-> "script_failed"]
    ELSE LET env1 == ImportEnvironment(env, dump)
         IN IF check_command(env1, "cl")
            THEN [ok |-> TRUE, env |-> env1, outcome |-> "imported"]
            ELSE [ok |-> FALSE, env |-> env1, outcome |-> "tool_missing"]

\* configure.py CompilerDetector.setup_msvc_environment
\*   status, dump: exit status and output of the developer script, if it runs
Configure_setup_msvc_environment(h, cfg, env, status, dump) ==
    IF h.system # "Windows" THEN [ok |-> TRUE, env |-> env, outcome |-> "not_needed"]
    ELSE IF cfg.build_system # None /\ cfg.build_system # "Ninja"
    THEN [ok |-> TRUE, env |-> env, outcome |-> "not_needed"]
    ELSE IF cfg.compiler \notin {"msvc", "cl", "clang-cl"}
    THEN [ok |-> TRUE, env |-> env, outcome |-> "not_needed"]
    ELSE IF cfg.compiler = "clang-cl" /\ check_command(env, "mt")
    THEN [ok |-> TRUE, env |-> env, outcome |-> "fast_path"]
    ELSE IF cfg.compiler # "clang-cl" /\ check_command(env, "cl")
    THEN [ok |-> TRUE, env |-> env, outcome |-> "fast_path"]
    ELSE IF ~FindVisualStudio(h)
    THEN [ok |-> FALSE, env |-> env, outcome |-> "vs_not_found"]
    ELSE IF h.vs_script = None
    THEN [ok |-> FALSE, env |-> env, outcome |-> "script_not_found"]
    ELSE IF status # 0
    THEN [ok |-> FALSE, env |-> env, outcome |-> "script_failed"]
    ELSE LET env1 == ImportEnvironment(env, dump)
             tool == IF cfg.compiler = "clang-cl" THEN "mt" ELSE "cl"
         IN IF check_command(env1, tool)
            THEN [ok |-> TRUE, env |-> env1, outcome |-> "imported"]
            ELSE [ok |-> FALSE, env |-> env1, outcome |-> "tool_missing"]

\* build.py setup_msvc_environment: the environment for `cmake --build`
Build_setup_msvc_environment(h, env, status, dump) ==
    IF h.system # "Windows" THEN [env |-> env, outcome |-> "not_needed"]
    ELSE IF check_command(env, "cl") /\ "INCLUDE" \in DOMAIN env
    THEN [env |-> env, outcome |-> "fast_path"]
    ELSE IF ~FindVisualStudio(h) THEN [env |-> env, outcome |-> "vs_not_found"]
    ELSE IF h.vs_script # "vcvarsall.bat"
    THEN [env |-> env, outcome |-> "script_not_found"]
    ELSE IF status # 0 THEN [env |-> env, outcome |-> "script_failed"]
    ELSE [env |-> ImportEnvironment(env, dump), outcome |-> "imported"]

\* outcomes in which the search for the vendor script found nothing
ScriptNotFound == {"vs_not_found", "script_not_found"}
\* outcomes in which the vendor script was run
ScriptRan == {"script_failed", "imported", "tool_missing"}

\* one call of a bootstrapper, as the run records it: the environment it started
\* from, what the developer script printed (if it ran to the end) and the
\* environment it leaves to the tools that follow
BootstrapCall(step, outcome, before, dump, after) ==
    [step |-> step, outcome |-> outcome, before |-> before,
     dump |-> IF outcome \in {"imported", "tool_missing"} THEN dump ELSE None,
     after |-> after]

----------------------------------------------------------------------------
(* Dependency manager (configure.py ConanManager) *)

\* ConanManager.find_conan_toolchain
find_conan_toolchain(h, cfg, f) ==
    LET d == Config_get_build_dir(h.system, cfg)
    IN f[d].exists /\ f[d].conan_toolchain

\* ConanManager.ask_use_conan asks in this case only
UseConanPromptShown(h, cfg, f) ==
    cfg.use_conan = None /\ ~find_conan_toolchain(h, cfg, f) /\ cfg.interactive

\* ConanManager.ask_use_conan
ask_use_conan(h, cfg, f, answer) ==
    IF cfg.use_conan # None THEN cfg.use_conan = "True"
    ELSE IF find_conan_toolchain(h, cfg, f) THEN TRUE
    ELSE IF ~cfg.interactive THEN FALSE
    ELSE ask_yes_no(answer, TRUE)

\* what install_deps.py leaves in the build directory when it succeeds and
\* produces the toolchain descriptor
InstallDeps(h, cfg, f) ==
    LET d == Config_get_build_dir(h.system, cfg)
    IN [f EXCEPT ![d] = [@ EXCEPT !.exists = TRUE, !.conan_toolchain = TRUE,
                                  !.conanbuild = (h.system = "Windows")]]

\* ConanManager.setup_conan
\*   a_use, a_reinstall, a_run: the answers at its three questions (when asked)
\*   status, produced: exit status of install_deps.py and whether it left a toolchain
\* returns the configuration, the directories, the questions asked and whether
\* install_deps.py ran
setup_conan(h, cfg, f, a_use, a_reinstall, a_run, status, produced) ==
    LET asked0 == IF UseConanPromptShown(h, cfg, f) THEN <<"prompt:use_conan">> ELSE <<>>
        off(c) == [c EXCEPT !.use_conan = "False"]
        on == [cfg EXCEPT !.use_conan = "True"]
        found == find_conan_toolchain(h, cfg, f)
        reinstall == found /\ cfg.interactive /\ ask_yes_no(a_reinstall, FALSE)
        asked1 == IF found /\ cfg.interactive
                  THEN asked0 \o <<"prompt:reinstall">> ELSE asked0
    IN IF ~ask_use_conan(h, cfg, f, a_use)
       THEN [config |-> off(cfg), fs |-> f, asked |-> asked0, ran |-> FALSE]
       ELSE IF found /\ ~reinstall
       THEN [config |-> [on EXCEPT !.conan_toolchain = TRUE], fs |-> f,
             asked |-> asked1, ran |-> FALSE]
       ELSE IF "install_deps.py" \notin h.scripts
       THEN [config |-> off(on), fs |-> f, asked |-> asked1, ran |-> FALSE]
       ELSE IF ~cfg.interactive
       THEN [config |-> off(on), fs |-> f, asked |-> asked1, ran |-> FALSE]
       ELSE IF ~ask_yes_no(a_run, TRUE)
       THEN [config |-> off(on), fs |-> f, asked |-> asked1 \o <<"prompt:run_install">>,
             ran |-> FALSE]
       ELSE IF status # 0
       THEN [config |-> off(on), fs |-> f, asked |-> asked1 \o <<"prompt:run_install">>,
             ran |-> TRUE]
       ELSE LET f1 == IF produced THEN InstallDeps(h, cfg, f) ELSE f
            IN IF find_conan_toolchain(h, cfg, f1)
               THEN [config |-> [on EXCEPT !.conan_toolchain = TRUE], fs |-> f1,
                     asked |-> asked1 \o <<"prompt:run_install">>, ran |-> TRUE]
               ELSE [config |-> off(on), fs |-> f1,
                     asked |-> asked1 \o <<"prompt:run_install">>, ran |-> TRUE]

----------------------------------------------------------------------------
(* CMake configuration (configure.py CMakeBuilder.configure) *)

\* build_dir.mkdir(parents=True, exist_ok=True)
Mkdir(f, d) == [f EXCEPT ![d].exists = TRUE]

\* shutil.rmtree(build_dir) followed by build_dir.mkdir
CleanDir(f, d) == [f EXCEPT ![d] = [NoWorkspace EXCEPT !.exists = TRUE]]

OnOff(tri, old) == IF tri = "True" THEN "ON" ELSE IF tri = "False" THEN "OFF" ELSE old

\* text of the compiler path cmake records for a compiler executable
CompilerPath(cxx) ==
    CASE cxx = "g++" -> S_bin \o S_gpp
      [] cxx = "clang++" -> S_bin \o S_clangpp
      [] cxx = "clang-cl" -> S_bin \o S_clang_cl
      [] OTHER -> S_MSVC_dir \o S_cl_exe

\* the cache file a successful `cmake -S -B` leaves in the build directory
CMakeWritesCache(cfg, f, d) ==
    LET old == f[d].cache
        multi == cfg.build_system \in
                     {"Visual Studio 17 2022", "Visual Studio 16 2019", "Visual Studio 15 2017"}
        passed == ~multi /\ cfg.compiler \notin {None, "msvc"}
        cache == [present |-> TRUE,
                  CMAKE_CXX_COMPILER |->
                      IF passed THEN CompilerPath(cfg.cxx_compiler)
                      ELSE IF old.CMAKE_CXX_COMPILER # <<>> THEN old.CMAKE_CXX_COMPILER
                      ELSE S_MSVC_dir \o S_cl_exe,
                  CMAKE_GENERATOR |-> cfg.build_system,
                  HELIOS_BUILD_CORE_ONLY |-> OnOff(cfg.core_only, old.HELIOS_BUILD_CORE_ONLY),
                  HELIOS_BUILD_TESTS |-> OnOff(cfg.build_tests, old.HELIOS_BUILD_TESTS),
                  HELIOS_BUILD_EXAMPLES |-> OnOff(cfg.build_examples, old.HELIOS_BUILD_EXAMPLES)]
    IN [f EXCEPT ![d] = [@ EXCEPT !.cache = cache, !.mtime = NextMtime(f)]]

\* configure asks whether to clean in this case only
CleanPromptShown(h, cfg, f) ==
    LET d == Config_get_build_dir(h.system, cfg)
    IN /\ ~(cfg.use_conan = "True" /\ cfg.conan_toolchain)
       /\ f[d].exists /\ f[d].cache.present
       /\ f[d].cache.CMAKE_GENERATOR # None
       /\ f[d].cache.CMAKE_GENERATOR # cfg.build_system
       /\ cfg.interactive

\* CMakeBuilder.configure
\*   a_clean: the answer at the clean question (when asked); status: cmake's exit status
configure(h, cfg, f, a_clean, status) ==
    LET d == Config_get_build_dir(h.system, cfg)
        f1 == Mkdir(f, d)
    IN IF cfg.use_conan = "True" /\ cfg.conan_toolchain
       THEN [ok |-> status = 0, config |-> cfg, dir |-> d, cleaned |-> FALSE,
             fs |-> IF status = 0 THEN CMakeWritesCache(cfg, f1, d) ELSE f1]
       ELSE LET cfg1 == IF CleanPromptShown(h, cfg, f) /\ ask_yes_no(a_clean, TRUE)
                        THEN [cfg EXCEPT !.clean_build = TRUE] ELSE cfg
                f2 == IF cfg1.clean_build THEN CleanDir(f1, d) ELSE f1
            IN [ok |-> status = 0, config |-> cfg1, dir |-> d,
                cleaned |-> cfg1.clean_build,
                fs |-> IF status = 0 THEN CMakeWritesCache(cfg1, f2, d) ELSE f2]

----------------------------------------------------------------------------
(* The orchestrator's command line and the configure.py command line *)

DefaultArgs ==
    [type |-> None, compiler |-> None, build_system |-> None, platform |-> None,
     core_only |-> FALSE, build_tests |-> None, build_examples |-> None,
     use_conan |-> None, clean |-> FALSE, no_interactive |-> FALSE,
     skip_configure |-> FALSE, lint |-> FALSE, format |-> FALSE]

\* build.py main: has_config_args
has_config_args(a, type) ==
    \/ type # None
    \/ a.compiler # None
    \/ a.build_system # None
    \/ a.core_only
    \/ a.build_tests # None
    \/ a.build_examples # None
    \/ a.use_conan # None
    \/ a.clean

NoCmd ==
    [type |-> None, compiler |-> None, build_system |-> None, platform |-> None,
     core_only |-> FALSE, build_tests |-> None, build_examples |-> None,
     use_conan |-> FALSE, no_conan |-> FALSE, clean |-> FALSE,
     no_interactive |-> FALSE]

\* build.py run_configure: the options taken from the cache of the existing build
\* directory when the command line does not give them
CacheOptions(a, f, existing) ==
    LET cache == read_cmake_cache(f, existing)
        use == existing \in Dirs /\ f[existing].exists
    IN [compiler |->
            IF use /\ a.compiler = None /\ cache.CMAKE_CXX_COMPILER # <<>>
            THEN BuildCachedCompiler(cache.CMAKE_CXX_COMPILER) ELSE None,
        build_system |->
            IF use /\ a.build_system = None /\ cache.CMAKE_GENERATOR # None
            THEN cache.CMAKE_GENERATOR ELSE None,
        \* args.core_only comes from a store_true option: it is False, never None
        core_only |-> FALSE,
        build_tests |->
            IF use /\ a.build_tests = None /\ cache.HELIOS_BUILD_TESTS # None
            THEN (IF cache.HELIOS_BUILD_TESTS = "ON" THEN "True" ELSE "False") ELSE None,
        build_examples |->
            IF use /\ a.build_examples = None /\ cache.HELIOS_BUILD_EXAMPLES # None
            THEN (IF cache.HELIOS_BUILD_EXAMPLES = "ON" THEN "True" ELSE "False") ELSE None,
        use_conan |-> use /\ a.use_conan = None /\ f[existing].conan_toolchain]

\* build.py run_configure: the command line of configure.py
ConfigureCommand(a, type, f, existing) ==
    LET c == CacheOptions(a, f, existing)
    IN [type |-> type,
        compiler |-> IF a.compiler # None THEN a.compiler ELSE c.compiler,
        build_system |-> IF a.build_system # None THEN a.build_system ELSE c.build_system,
        platform |-> a.platform,
        core_only |-> a.core_only \/ c.core_only,
        build_tests |-> IF a.build_tests # None THEN a.build_tests ELSE c.build_tests,
        build_examples |-> IF a.build_examples # None THEN a.build_examples
                           ELSE c.build_examples,
        use_conan |-> a.use_conan = "True" \/ c.use_conan,
        no_conan |-> a.use_conan = "False",
        clean |-> a.clean,
        no_interactive |-> a.no_interactive]

\* configure.py main: the BuildConfig after the command line is applied
InitialConfig(c) ==
    [build_type |-> c.type, compiler |-> c.compiler, cxx_compiler |-> None,
     build_system |-> c.build_system, vs_version |-> None,
     core_only |-> IF c.core_only THEN "True" ELSE None,
     build_tests |-> c.build_tests, build_examples |-> c.build_examples,
     clean_build |-> c.clean, conan_toolchain |-> FALSE,
     use_conan |-> IF c.use_conan THEN "True" ELSE IF c.no_conan THEN "False" ELSE None,
     interactive |-> ~c.no_interactive]

NoConfig == InitialConfig(NoCmd)

----------------------------------------------------------------------------
(* Steps of build.py *)

NoRuns ==
    [format |-> -1, install_deps |-> -1, vcvars |-> -1, cmake_configure |-> -1,
     conanbuild |-> -1, build_vcvars |-> -1, cmake_build |-> -1, lint |-> -1]

\* sys.exit(main()) of build.py
Exit(code) ==
    /\ pc' = "done"
    /\ exit_code' = code

\* main: the formatting pre-step
Format ==
    /\ pc = "start"
    /\ \E status \in ScriptStatuses(cli.format /\ "format.py" \in host.scripts) :
          LET runs == cli.format /\ "format.py" \in host.scripts
          IN /\ subproc' = IF runs THEN [subproc EXCEPT !.format = status] ELSE subproc
             /\ log' = IF runs THEN Append(log, "format.py") ELSE log
             /\ IF runs /\ status # 0
                THEN Exit(1)
                ELSE pc' = "main" /\ UNCHANGED exit_code
    /\ UNCHANGED <<cli, host, fs, fs0, cache_file, cache_dict, args_type, build_dir, build_type,
                   needs_configure, cmd, config, environ, rc, handed, built,
                   cancelled, bootstrap>>

\* main: the branch that shows the build directory selection
\* (select_build_dir_interactive); an invalid answer asks again
SelectBuildDirInteractive ==
    /\ pc = "main"
    /\ ~has_config_args(cli, args_type) /\ ~cli.skip_configure /\ ~cli.no_interactive
    /\ LET dirs == find_all_configured_build_dirs(fs)
           n == Len(dirs)
       IN IF n = 0
          THEN /\ build_dir' = NoDir
               /\ needs_configure' = TRUE
               /\ pc' = "dispatch"
               /\ UNCHANGED <<args_type, build_type, exit_code, log, cancelled>>
          ELSE \/ \E e \in Cancels :
                     \* caught: "User wants to exit"
                     /\ cancelled' = cancelled \cup {"prompt:select"}
                     /\ log' = Append(log, "prompt:select")
                     /\ Exit(0)
                     /\ UNCHANGED <<args_type, build_dir, build_type, needs_configure>>
               \/ \E idx \in 0..n :
                     \* an empty answer (0 here) is choice 1
                     LET d == dirs[IF idx = 0 THEN 1 ELSE idx]
                     IN /\ build_dir' = d
                        /\ needs_configure' = FALSE
                        /\ build_type' = detect_build_type_from_dir(d)
                        /\ args_type' = detect_build_type_from_dir(d)
                        /\ log' = Append(log, "prompt:select")
                        /\ pc' = "dispatch"
                        /\ UNCHANGED <<exit_code, cancelled>>
               \/ \* "Configure new build"
                  /\ build_dir' = NoDir
                  /\ needs_configure' = TRUE
                  /\ log' = Append(log, "prompt:select")
                  /\ pc' = "dispatch"
                  /\ UNCHANGED <<args_type, build_type, exit_code, cancelled>>
               \/ \* "Reconfigure existing", then the build to reconfigure
                  \E idx \in 0..n :
                     LET d == dirs[IF idx = 0 THEN 1 ELSE idx]
                     IN /\ build_dir' = d
                        /\ needs_configure' = TRUE
                        /\ build_type' = detect_build_type_from_dir(d)
                        /\ args_type' = detect_build_type_from_dir(d)
                        /\ log' = log \o <<"prompt:select", "prompt:reconfigure">>
                        /\ pc' = "dispatch"
                        /\ UNCHANGED <<exit_code, cancelled>>
               \/ \* "Reconfigure existing", then a cancel: input() is outside the
                  \* try that catches KeyboardInterrupt and EOFError
                  \E e \in Cancels :
                     /\ cancelled' = cancelled \cup {"prompt:reconfigure"}
                     /\ log' = log \o <<"prompt:select", "prompt:reconfigure">>
                     /\ Exit(UncaughtExit(e))
                     /\ UNCHANGED <<args_type, build_dir, build_type, needs_configure>>
    /\ UNCHANGED <<cli, host, fs, fs0, cache_file, cache_dict, cmd, config, environ, rc, handed, built,
                   subproc, bootstrap>>

\* main: the branch without selection ("old logic")
FindBuildDir ==
    /\ pc = "main"
    /\ ~(~has_config_args(cli, args_type) /\ ~cli.skip_configure /\ ~cli.no_interactive)
    /\ LET configured_dir == find_configured_build_dir(fs)
           needs == \/ cli.clean
                    \/ configured_dir = NoDir
                    \/ (args_type # None /\ configured_dir # get_build_dir(host.system, args_type))
                    \/ has_config_args(cli, args_type)
       IN /\ needs_configure' = needs
          /\ build_dir' = IF ~needs /\ configured_dir # NoDir THEN configured_dir ELSE NoDir
    /\ pc' = "dispatch"
    /\ UNCHANGED <<cli, host, fs, fs0, cache_file, cache_dict, args_type, build_type, cmd, config, environ,
                   rc, exit_code, handed, built, log, cancelled, subproc, bootstrap>>

\* a test that does not look at --skip-configure
ConfigureWanted_ignores_skip(a, needs) == needs

\* main: "if not args.skip_configure and needs_configure"
ConfigureWanted(a, needs) == ~a.skip_configure /\ needs

\* main: "Run configure if needed"
Dispatch ==
    /\ pc = "dispatch"
    /\ IF ConfigureWanted(cli, needs_configure)
       THEN pc' = "run_configure" /\ UNCHANGED <<build_dir, exit_code>>
       ELSE IF build_dir = NoDir
       THEN LET configured_dir == find_configured_build_dir(fs)
                d == IF configured_dir # NoDir THEN configured_dir
                     ELSE get_build_dir(host.system, build_type)
            IN IF is_configured(fs, d)
               THEN pc' = "build" /\ build_dir' = d /\ UNCHANGED exit_code
               ELSE IF cli.skip_configure
               THEN Exit(1) /\ build_dir' = d
               ELSE \* run_configure(args, script_dir, project_root, None)
                    pc' = "run_configure" /\ build_dir' = NoDir /\ UNCHANGED exit_code
       ELSE pc' = "build" /\ UNCHANGED <<build_dir, exit_code>>
    /\ UNCHANGED <<cli, host, fs, fs0, cache_file, cache_dict, args_type, build_type, needs_configure, cmd,
                   config, environ, rc, handed, built, log, cancelled, subproc,
                   bootstrap>>

\* run_configure: build the command line and start configure.py
RunConfigure ==
    /\ pc = "run_configure"
    /\ IF "configure.py" \notin host.scripts
       THEN Exit(1) /\ UNCHANGED <<cmd, log>>
       ELSE /\ cmd' = ConfigureCommand(cli, args_type, fs, build_dir)
            /\ log' = Append(log, "configure.py")
            /\ pc' = "cfg_main"
            /\ UNCHANGED exit_code
    /\ UNCHANGED <<cli, host, fs, fs0, cache_file, cache_dict, args_type, build_dir, build_type,
                   needs_configure, config, environ, rc, handed, built, cancelled,
                   subproc, bootstrap>>

\* a test that takes every return code of configure.py for a success
ConfigureSucceeded_always(returncode) == TRUE

\* run_configure: "if result.returncode == 0"
ConfigureSucceeded(returncode) == returncode = 0

\* run_configure after configure.py has exited, and main's handling of its result
ConfigureReturn ==
    /\ pc = "cfg_exit"
    /\ IF ~ConfigureSucceeded(rc)
       THEN Exit(1) /\ UNCHANGED build_dir
       ELSE LET new_build_dir == find_configured_build_dir(fs)
            IN IF new_build_dir = NoDir
               THEN Exit(1) /\ UNCHANGED build_dir
               ELSE pc' = "build" /\ build_dir' = new_build_dir /\ UNCHANGED exit_code
    /\ UNCHANGED <<cli, host, fs, fs0, cache_file, cache_dict, args_type, build_type, needs_configure, cmd,
                   config, environ, rc, handed, built, log, cancelled, subproc,
                   bootstrap>>

\* the exit code that hands the backend's status on unchanged
BuildFailureExit_verbatim(status) == status

\* main: the exit code when build_project returns False
BuildFailureExit(status) == 1

\* whether build_project gets as far as running the developer script
Build_ScriptRuns(h, f, d, s_conan) ==
    /\ h.system = "Windows"
    /\ ~f[d].conanbuild \/ s_conan # 0
    /\ Build_setup_msvc_environment(h, HostEnvironment(h), 0, HostEnvironment(h)).outcome
           \in ScriptRan

\* main: build type from the directory, then build_project
BuildProject ==
    /\ pc = "build"
    /\ LET bt == IF args_type = None THEN detect_build_type_from_dir(build_dir)
                 ELSE build_type
       IN /\ build_type' = bt
          /\ IF ~is_configured(fs, build_dir)
             THEN Exit(1) /\ UNCHANGED <<built, log, subproc, bootstrap>>
             ELSE \E s_conan \in ScriptStatuses(host.system = "Windows"
                                                     /\ fs[build_dir].conanbuild) :
                  \E s_env \in ScriptStatuses(Build_ScriptRuns(host, fs, build_dir, s_conan)),
                     dump \in IF Build_ScriptRuns(host, fs, build_dir, s_conan)
                              THEN ScriptDumps(HostEnvironment(host))
                              ELSE {HostEnvironment(host)},
                     s_build \in Statuses :
                     LET conan_env == host.system = "Windows" /\ fs[build_dir].conanbuild
                         \* conanbuild.bat failed: "trying MSVC setup..."
                         msvc == host.system = "Windows" /\ (~conan_env \/ s_conan # 0)
                         r == Build_setup_msvc_environment(
                                  host, HostEnvironment(host), s_env, dump)
                         ran == msvc /\ r.outcome \in ScriptRan
                     IN /\ bootstrap' = IF msvc
                                        THEN Append(bootstrap,
                                                    BootstrapCall("build", r.outcome,
                                                                  HostEnvironment(host),
                                                                  dump, r.env))
                                        ELSE bootstrap
                        /\ log' = log \o (IF conan_env THEN <<"conanbuild.bat">> ELSE <<>>)
                                      \o (IF ran THEN <<"vcvars">> ELSE <<>>)
                                      \o <<"cmake_build">>
                        /\ subproc' = [subproc EXCEPT
                                          !.conanbuild = IF conan_env THEN s_conan ELSE @,
                                          !.build_vcvars = IF ran THEN s_env ELSE @,
                                          !.cmake_build = s_build]
                        /\ built' = Append(built, [dir |-> build_dir, build_type |-> bt])
                        /\ IF s_build # 0
                           THEN Exit(BuildFailureExit(s_build))
                           ELSE pc' = "lint" /\ UNCHANGED exit_code
    /\ UNCHANGED <<cli, host, fs, fs0, cache_file, cache_dict, args_type, build_dir, needs_configure, cmd,
                   config, environ, rc, handed, cancelled>>

\* an exit code that hands on the status of lint.py
LintExit_propagates(status) == status

\* main: the exit code after the linting post-step
LintExit(status) == 0

\* main: the linting post-step and the final return
Lint ==
    /\ pc = "lint"
    /\ \E status \in ScriptStatuses(cli.lint /\ "lint.py" \in host.scripts) :
          LET runs == cli.lint /\ "lint.py" \in host.scripts
          IN /\ subproc' = IF runs THEN [subproc EXCEPT !.lint = status] ELSE subproc
             /\ log' = IF runs THEN Append(log, "lint.py") ELSE log
             /\ Exit(LintExit(status))
    /\ UNCHANGED <<cli, host, fs, fs0, cache_file, cache_dict, args_type, build_dir, build_type,
                   needs_configure, cmd, config, environ, rc, handed, built,
                   cancelled, bootstrap>>

----------------------------------------------------------------------------
(* Steps of configure.py *)

\* sys.exit(main()) of configure.py, or its end by an uncaught exception
ConfigureExit(code) ==
    /\ pc' = "cfg_exit"
    /\ rc' = code

\* what the orchestrator's variables do during a step of configure.py
OrchestratorUnchanged ==
    UNCHANGED <<cli, host, fs0, cache_file, cache_dict, args_type, build_dir, build_type, needs_configure,
                cmd, exit_code, built>>

\* an uncaught KeyboardInterrupt or EOFError at input()
Crash(prompt, e) ==
    /\ ConfigureExit(UncaughtExit(e))
    /\ cancelled' = cancelled \cup {prompt}
    /\ log' = Append(log, prompt)

\* parse_arguments and main up to the dependency check
ConfigureMain ==
    /\ pc = "cfg_main"
    /\ environ' = HostEnvironment(host)
    /\ IF cmd.platform # None
       THEN \* argparse: unrecognized arguments: --platform
            ConfigureExit(2) /\ UNCHANGED config
       ELSE /\ config' = InitialConfig(cmd)
            /\ IF ~check_command(HostEnvironment(host), "cmake")
               THEN ConfigureExit(1)
               ELSE /\ pc' = IF cmd.no_interactive THEN "defaults" ELSE "modules"
                    /\ UNCHANGED rc
    /\ OrchestratorUnchanged
    /\ UNCHANGED <<fs, handed, log, cancelled, subproc, bootstrap>>

\* main, interactive: 1. select_modules_interactive
SelectModules ==
    /\ pc = "modules"
    /\ IF config.core_only # None
       THEN pc' = "tests_examples" /\ UNCHANGED <<config, rc, log, cancelled>>
       ELSE \E a \in ChoiceAnswers :
               IF a \in Cancels
               THEN Crash("prompt:modules", a) /\ UNCHANGED config
               ELSE /\ config' = [config EXCEPT
                                     !.core_only = IF a = "1" THEN "True" ELSE "False"]
                    /\ log' = Append(log, "prompt:modules")
                    /\ pc' = "tests_examples"
                    /\ UNCHANGED <<rc, cancelled>>
    /\ OrchestratorUnchanged
    /\ UNCHANGED <<fs, environ, handed, subproc, bootstrap>>

\* main, interactive: 2. select_tests_and_examples_interactive
SelectTestsExamples ==
    /\ pc = "tests_examples"
    /\ \E a_tests \in Answers(config.build_tests = None, YesNoAnswers),
          a_examples \in Answers(config.build_examples = None, YesNoAnswers) :
          LET ask_tests == config.build_tests = None
              ask_examples == config.build_examples = None
              Bool(b) == IF b THEN "True" ELSE "False"
          IN /\ config' = [config EXCEPT
                              !.build_tests =
                                  IF ask_tests THEN Bool(ask_yes_no(a_tests, FALSE)) ELSE @,
                              !.build_examples =
                                  IF ask_examples THEN Bool(ask_yes_no(a_examples, FALSE))
                                  ELSE @]
             /\ log' = log \o (IF ask_tests THEN <<"prompt:tests">> ELSE <<>>)
                           \o (IF ask_examples THEN <<"prompt:examples">> ELSE <<>>)
             /\ cancelled' = cancelled
                    \cup (IF ask_tests /\ a_tests \in Cancels THEN {"prompt:tests"} ELSE {})
                    \cup (IF ask_examples /\ a_examples \in Cancels
                          THEN {"prompt:examples"} ELSE {})
    /\ pc' = "build_type"
    /\ OrchestratorUnchanged
    /\ UNCHANGED <<fs, environ, rc, handed, subproc, bootstrap>>

\* main, interactive: 3. select_build_type_interactive
SelectBuildType ==
    /\ pc = "build_type"
    /\ IF config.build_type # None
       THEN pc' = "select_compiler" /\ UNCHANGED <<config, rc, log, cancelled>>
       ELSE \E a \in ChoiceAnswers :
               IF a \in Cancels
               THEN Crash("prompt:build_type", a) /\ UNCHANGED config
               ELSE /\ config' = [config EXCEPT
                                     !.build_type = IF a = "1" THEN "Debug"
                                                    ELSE IF a = "2" THEN "RelWithDebInfo"
                                                    ELSE "Release"]
                    /\ log' = Append(log, "prompt:build_type")
                    /\ pc' = "select_compiler"
                    /\ UNCHANGED <<rc, cancelled>>
    /\ OrchestratorUnchanged
    /\ UNCHANGED <<fs, environ, handed, subproc, bootstrap>>

\* main, interactive: 4. select_compiler_interactive when no compiler is set
\* (its result is not looked at)
SelectCompiler ==
    /\ pc = "select_compiler"
    /\ IF config.compiler # None
       THEN pc' = "setup_compiler" /\ UNCHANGED <<config, environ, rc, log, cancelled>>
       ELSE \E a \in Answers(CompilerPromptShown(host, environ), ChoiceAnswers) :
               LET shown == CompilerPromptShown(host, environ)
                   r == select_compiler_interactive(host, config, environ, a)
               IN IF shown /\ a \in Cancels
                  THEN /\ Crash("prompt:compiler", a)
                       /\ environ' = r.env
                       /\ UNCHANGED config
                  ELSE /\ config' = r.config
                       /\ environ' = r.env
                       /\ log' = IF shown THEN Append(log, "prompt:compiler") ELSE log
                       /\ pc' = "setup_compiler"
                       /\ UNCHANGED <<rc, cancelled>>
    /\ OrchestratorUnchanged
    /\ UNCHANGED <<fs, handed, subproc, bootstrap>>

\* main: setup_compiler
SetupCompiler ==
    /\ pc = "setup_compiler"
    /\ \E a \in Answers(SetupCompilerPromptShown(host, config, environ, fs), ChoiceAnswers) :
          LET shown == SetupCompilerPromptShown(host, config, environ, fs)
              r == setup_compiler(host, config, environ, fs, a)
          IN IF shown /\ a \in Cancels
             THEN /\ Crash("prompt:compiler", a)
                  /\ environ' = r.env
                  /\ UNCHANGED config
             ELSE /\ config' = r.config
                  /\ environ' = r.env
                  /\ log' = IF shown THEN Append(log, "prompt:compiler") ELSE log
                  /\ UNCHANGED cancelled
                  /\ IF r.ok
                     THEN /\ pc' = IF config.interactive THEN "select_build_system"
                                   ELSE "setup_build_system"
                          /\ UNCHANGED rc
                     ELSE ConfigureExit(1)
    /\ OrchestratorUnchanged
    /\ UNCHANGED <<fs, handed, subproc, bootstrap>>

\* main, interactive: 5. select_build_system_interactive when no build system is set
\* (its result is not looked at)
SelectBuildSystem ==
    /\ pc = "select_build_system"
    /\ IF config.build_system # None
       THEN pc' = "setup_build_system" /\ UNCHANGED <<config, rc, log, cancelled>>
       ELSE \E a \in Answers(BuildSystemPromptShown(host, environ), ChoiceAnswers) :
               LET shown == BuildSystemPromptShown(host, environ)
                   r == select_build_system_interactive(host, config, environ, a)
               IN IF shown /\ a \in Cancels
                  THEN Crash("prompt:build_system", a) /\ UNCHANGED config
                  ELSE /\ config' = r.config
                       /\ log' = IF shown THEN Append(log, "prompt:build_system") ELSE log
                       /\ pc' = "setup_build_system"
                       /\ UNCHANGED <<rc, cancelled>>
    /\ OrchestratorUnchanged
    /\ UNCHANGED <<fs, environ, handed, subproc, bootstrap>>

\* main: setup_build_system
SetupBuildSystem ==
    /\ pc = "setup_build_system"
    /\ \E a \in Answers(SetupBuildSystemPromptShown(host, config, environ), ChoiceAnswers) :
          LET shown == SetupBuildSystemPromptShown(host, config, environ)
              r == setup_build_system(host, config, environ, a)
          IN IF shown /\ a \in Cancels
             THEN Crash("prompt:build_system", a) /\ UNCHANGED config
             ELSE /\ config' = r.config
                  /\ log' = IF shown THEN Append(log, "prompt:build_system") ELSE log
                  /\ UNCHANGED cancelled
                  /\ IF r.ok
                     THEN pc' = "msvc_env" /\ UNCHANGED rc
                     ELSE ConfigureExit(1)
    /\ OrchestratorUnchanged
    /\ UNCHANGED <<fs, environ, handed, subproc, bootstrap>>

\* main, non-interactive: "Set defaults for non-interactive mode"
NonInteractiveDefaults ==
    /\ pc = "defaults"
    /\ config' = [config EXCEPT
                     !.build_type = IF @ = None THEN "Release" ELSE @,
                     !.core_only = IF @ = None THEN "False" ELSE @,
                     !.build_tests = IF @ = None THEN "False" ELSE @,
                     !.build_examples = IF @ = None THEN "False" ELSE @]
    /\ pc' = "setup_compiler"
    /\ OrchestratorUnchanged
    /\ UNCHANGED <<fs, environ, rc, handed, log, cancelled, subproc, bootstrap>>

\* whether setup_msvc_environment gets as far as running the developer script
Configure_ScriptRuns(h, cfg, env) ==
    Configure_setup_msvc_environment(h, cfg, env, 0, env).outcome \in ScriptRan

\* main: setup_msvc_environment, fatal for msvc and clang-cl
SetupMsvcEnvironment ==
    /\ pc = "msvc_env"
    /\ \E status \in ScriptStatuses(Configure_ScriptRuns(host, config, environ)),
          dump \in IF Configure_ScriptRuns(host, config, environ)
                   THEN ScriptDumps(environ) ELSE {environ} :
          LET r == Configure_setup_msvc_environment(host, config, environ, status, dump)
              ran == r.outcome \in ScriptRan
          IN /\ environ' = r.env
             /\ bootstrap' = Append(bootstrap, BootstrapCall("configure", r.outcome,
                                                           environ, dump, r.env))
             /\ log' = IF ran THEN Append(log, "vcvars") ELSE log
             /\ subproc' = IF ran THEN [subproc EXCEPT !.vcvars = status] ELSE subproc
             /\ IF ~r.ok /\ config.compiler \in {"msvc", "clang-cl"}
                THEN ConfigureExit(1)
                ELSE pc' = "conan" /\ UNCHANGED rc
    /\ OrchestratorUnchanged
    /\ UNCHANGED <<fs, config, handed, cancelled>>

\* whether setup_conan asks question p, given the answers before it
ConanAsks(h, cfg, f, a_use, a_reinstall, p) ==
    LET asked == setup_conan(h, cfg, f, a_use, a_reinstall, "", 0, TRUE).asked
    IN \E i \in 1..Len(asked) : asked[i] = p

\* whether setup_conan runs install_deps.py, given the answers
ConanRuns(h, cfg, f, a_use, a_reinstall, a_run) ==
    setup_conan(h, cfg, f, a_use, a_reinstall, a_run, 0, TRUE).ran

\* main: 6. setup_conan (it always returns True)
SetupConan ==
    /\ pc = "conan"
    /\ \E a_use \in Answers(UseConanPromptShown(host, config, fs), YesNoAnswers) :
       \E a_reinstall \in Answers(ConanAsks(host, config, fs, a_use, "", "prompt:reinstall"),
                                  YesNoAnswers) :
       \E a_run \in Answers(ConanAsks(host, config, fs, a_use, a_reinstall,
                                      "prompt:run_install"), YesNoAnswers) :
       \E status \in ScriptStatuses(ConanRuns(host, config, fs, a_use, a_reinstall, a_run)),
          produced \in IF ConanRuns(host, config, fs, a_use, a_reinstall, a_run)
                       THEN BOOLEAN ELSE {FALSE} :
          LET r == setup_conan(host, config, fs, a_use, a_reinstall, a_run, status, produced)
              gave(p, a) == IF a \in Cancels /\ \E i \in 1..Len(r.asked) : r.asked[i] = p
                            THEN {p} ELSE {}
          IN /\ config' = r.config
             /\ fs' = r.fs
             /\ log' = log \o r.asked \o (IF r.ran THEN <<"install_deps.py">> ELSE <<>>)
             /\ subproc' = IF r.ran THEN [subproc EXCEPT !.install_deps = status]
                           ELSE subproc
             /\ cancelled' = cancelled \cup gave("prompt:use_conan", a_use)
                                       \cup gave("prompt:reinstall", a_reinstall)
                                       \cup gave("prompt:run_install", a_run)
    /\ pc' = "cmake"
    /\ OrchestratorUnchanged
    /\ UNCHANGED <<environ, rc, handed, bootstrap>>

\* main: cmake_builder.configure() and the return
CMakeConfigure ==
    /\ pc = "cmake"
    /\ \E a_clean \in Answers(CleanPromptShown(host, config, fs), YesNoAnswers),
          status \in Statuses :
          LET shown == CleanPromptShown(host, config, fs)
              r == configure(host, config, fs, a_clean, status)
          IN /\ config' = r.config
             /\ fs' = r.fs
             /\ handed' = Append(handed, [config |-> r.config, dir |-> r.dir,
                                          cleaned |-> r.cleaned])
             /\ log' = log \o (IF shown THEN <<"prompt:clean">> ELSE <<>>)
                           \o <<"cmake_configure">>
             /\ cancelled' = IF shown /\ a_clean \in Cancels
                             THEN cancelled \cup {"prompt:clean"} ELSE cancelled
             /\ subproc' = [subproc EXCEPT !.cmake_configure = status]
             /\ ConfigureExit(IF r.ok THEN 0 ELSE 1)
    /\ OrchestratorUnchanged
    /\ UNCHANGED <<environ, bootstrap>>

----------------------------------------------------------------------------
(* The runs that are checked: command line, host and build directories *)

AllScripts == {"configure.py", "install_deps.py", "format.py", "lint.py"}

GCC == {"gcc", "g++"}
CLANG == {"clang", "clang++"}

UnixHost(system, tools, scripts) ==
    [system |-> system, environ |-> [PATH |-> tools], vs |-> "none", vs_script |-> None,
     vs_version |-> None, llvm_bin |-> {}, scripts |-> scripts]

\* every combination of the tool chains on a Linux host that has cmake, a host
\* with gcc but no g++, and a host without cmake
LinuxHosts ==
    {UnixHost("Linux", {"cmake"} \cup c1 \cup c2 \cup b1 \cup b2, AllScripts) :
        c1 \in {{}, GCC}, c2 \in {{}, CLANG}, b1 \in {{}, {"ninja"}}, b2 \in {{}, {"make"}}}
    \cup {UnixHost("Linux", {"cmake", "gcc", "clang", "ninja"}, AllScripts),
          UnixHost("Linux", GCC \cup {"ninja"}, AllScripts)}

DarwinHosts ==
    {UnixHost("Darwin", {"cmake"} \cup CLANG \cup {"make"}, AllScripts),
     UnixHost("Darwin", {"cmake"} \cup GCC \cup CLANG \cup {"ninja", "make"}, AllScripts)}

\* Visual Studio as the searches see it: where it is found, the developer script
\* it holds, its version
VisualStudios ==
    {<<"none", None, None>>,
     <<"vswhere", "vcvarsall.bat", "2022">>,
     <<"vswhere", "vcvarsall.bat", "2019">>,
     <<"vswhere", "VsDevCmd.bat", "2022">>,
     <<"vswhere", None, "2022">>,
     <<"fallback_vswhere", "vcvarsall.bat", "2022">>,
     <<"common", "vcvarsall.bat", "2019">>}

\* LLVM on a Windows host: none, clang only, clang-cl only, both, or an
\* installation that is not on PATH
Llvms == {"none", "clang", "clang-cl", "llvm", "llvm_bin"}

\* dev: the process was started from a developer command prompt
WindowsHost(visual, dev, llvm, ninja) ==
    LET path == {"cmake"}
                \cup (IF dev THEN VCTools \cup {"msbuild"} ELSE {})
                \cup (IF llvm \in {"clang", "llvm"} THEN CLANG ELSE {})
                \cup (IF llvm \in {"clang-cl", "llvm"} THEN {"clang-cl"} ELSE {})
                \cup (IF ninja THEN {"ninja"} ELSE {})
    IN [system |-> "Windows",
        environ |-> IF dev THEN [PATH |-> path, INCLUDE |-> "vc", TEMP |-> "tmp"]
                    ELSE [PATH |-> path, TEMP |-> "tmp"],
        vs |-> visual[1], vs_script |-> visual[2], vs_version |-> visual[3],
        llvm_bin |-> IF llvm = "llvm_bin" THEN CLANG \cup {"clang-cl"} ELSE {},
        scripts |-> AllScripts]

WindowsHosts ==
    {WindowsHost(v, dev, l, n) :
        v \in VisualStudios, dev \in BOOLEAN, l \in Llvms, n \in BOOLEAN}

\* hosts on which a script of the repository is missing
BrokenHosts ==
    {UnixHost("Linux", {"cmake"} \cup GCC \cup {"ninja"}, AllScripts \ {s}) : s \in AllScripts}

Hosts == LinuxHosts \cup DarwinHosts \cup WindowsHosts \cup BrokenHosts

\* a few hosts of each platform, for the runs with many prompts
FewHosts ==
    {UnixHost("Linux", {"cmake"} \cup GCC \cup CLANG \cup {"ninja", "make"}, AllScripts),
     UnixHost("Linux", {"cmake"} \cup CLANG \cup {"make"}, AllScripts),
     WindowsHost(<<"vswhere", "vcvarsall.bat", "2022">>, FALSE, "llvm", TRUE),
     WindowsHost(<<"vswhere", None, "2022">>, FALSE, "clang-cl", TRUE)}

EmptyFs == [d \in Dirs |-> NoWorkspace]

\* cache files as an earlier configuration leaves them
Caches(cxxs, generators, onoff) ==
    {[present |-> TRUE, CMAKE_CXX_COMPILER |-> CompilerPath(cxx), CMAKE_GENERATOR |-> g,
      HELIOS_BUILD_CORE_ONLY |-> o[1], HELIOS_BUILD_TESTS |-> o[2],
      HELIOS_BUILD_EXAMPLES |-> o[3]] :
        cxx \in cxxs, g \in generators, o \in onoff}

Workspace(cache, conan, time) ==
    [exists |-> TRUE, cache |-> cache, conan_toolchain |-> conan, conanbuild |-> FALSE,
     mtime |-> time]

\* file systems with one configured directory
OneWorkspace(dirs, caches, conans) ==
    {[EmptyFs EXCEPT ![d] = Workspace(c, k, 1)] : d \in dirs, c \in caches, k \in conans}

\* the options of build.py that has_config_args looks at, one at a time
ConfigEdits(a) ==
    {[a EXCEPT !.type = v] : v \in BuildTypes}
    \cup {[a EXCEPT !.compiler = v] : v \in CompilerChoices}
    \cup {[a EXCEPT !.build_system = v] : v \in GeneratorChoices}
    \cup {[a EXCEPT !.build_tests = v] : v \in {"True", "False"}}
    \cup {[a EXCEPT !.build_examples = v] : v \in {"True", "False"}}
    \cup {[a EXCEPT !.use_conan = v] : v \in {"True", "False"}}
    \cup {[a EXCEPT !.core_only = TRUE], [a EXCEPT !.clean = TRUE]}

\* the other options of build.py, one at a time
ModeEdits(a) ==
    {[a EXCEPT !.platform = v] : v \in PlatformChoices}
    \cup {[a EXCEPT !.skip_configure = TRUE], [a EXCEPT !.lint = TRUE],
          [a EXCEPT !.format = TRUE]}

NonInteractive == [DefaultArgs EXCEPT !.no_interactive = TRUE]

PlatformDirs(h) == {d \in Dirs : d[2] = get_platform_name(h.system)}

\* hosts with one tool chain, on which the resolver has nothing to ask about it
PlainHosts ==
    {UnixHost("Linux", {"cmake"} \cup GCC \cup {"ninja"}, AllScripts),
     UnixHost("Linux", {"cmake"} \cup CLANG \cup {"make"}, AllScripts)}

\* configured directories of a Linux host, as earlier runs leave them
LinuxWorkspaces ==
    OneWorkspace({<<"release", "linux">>},
                 Caches({"g++"}, {"Ninja"}, {<<"ON", "ON", "OFF">>, <<"OFF", "OFF", "ON">>})
                 \cup Caches({"clang++"}, {"Unix Makefiles"}, {<<"OFF", "ON", "ON">>}),
                 {FALSE})
    \cup OneWorkspace({<<"debug", "linux">>},
                      Caches({"g++"}, {"Ninja"}, {<<"ON", "OFF", "OFF">>}), BOOLEAN)

\* runs without prompts on a fresh checkout: every host, one option or none
BatchRuns ==
    {<<a, h, EmptyFs>> : a \in {NonInteractive} \cup ConfigEdits(NonInteractive)
                               \cup ModeEdits(NonInteractive),
                         h \in Hosts}

\* runs without prompts over a configured directory
BatchWorkspaceRuns ==
    {<<a, h, f>> : a \in {NonInteractive} \cup ConfigEdits(NonInteractive)
                         \cup ModeEdits(NonInteractive),
                   h \in PlainHosts, f \in LinuxWorkspaces}

\* runs with every prompt, on a fresh checkout
InteractiveRuns == {<<DefaultArgs, h, EmptyFs>> : h \in FewHosts}

\* runs that start at the build directory selection
SelectionRuns == {<<DefaultArgs, h, f>> : h \in PlainHosts, f \in LinuxWorkspaces}

\* runs with prompts and one option given
OptionRuns ==
    {<<a, UnixHost("Linux", {"cmake"} \cup GCC \cup CLANG \cup {"ninja"}, AllScripts), EmptyFs>> :
        a \in ConfigEdits(DefaultArgs)}

\* Scenario B: --type Debug --compiler X, with and without --clean and --no-interactive
ScenarioBArgs ==
    {[DefaultArgs EXCEPT !.type = "Debug", !.compiler = x, !.clean = c, !.no_interactive = n] :
        x \in CompilerChoices, c \in BOOLEAN, n \in BOOLEAN}

\* hosts for Scenario B with prompts: few compilers, so that X is often absent
ScenarioBHosts ==
    {UnixHost("Linux", {"cmake"} \cup CLANG \cup {"make"}, AllScripts),
     UnixHost("Linux", {"cmake", "ninja"}, AllScripts),
     WindowsHost(<<"none", None, None>>, FALSE, "none", TRUE),
     WindowsHost(<<"none", None, None>>, FALSE, "clang", TRUE)}

\* the Debug directory of the host's platform, configured by an earlier run
DebugWorkspace(h) ==
    [EmptyFs EXCEPT ![get_build_dir(h.system, "Debug")] =
        Workspace([present |-> TRUE,
                   CMAKE_CXX_COMPILER |-> CompilerPath(IF h.system = "Windows" THEN "cl"
                                                       ELSE "g++"),
                   CMAKE_GENERATOR |-> "Ninja", HELIOS_BUILD_CORE_ONLY |-> "OFF",
                   HELIOS_BUILD_TESTS |-> "OFF", HELIOS_BUILD_EXAMPLES |-> "OFF"],
                  FALSE, 1)]

ScenarioBRuns ==
    {<<a, h, EmptyFs>> : a \in {b \in ScenarioBArgs : b.no_interactive}, h \in Hosts}
    \cup UNION {{<<a, h, EmptyFs>>, <<a, h, DebugWorkspace(h)>>} :
                    a \in ScenarioBArgs, h \in ScenarioBHosts}

\* configured directories of a Windows host, as earlier runs leave them
WindowsWorkspaces ==
    OneWorkspace({<<"release", "windows">>},
                 Caches({"cl"}, {"Ninja", "Visual Studio 17 2022"}, {<<"OFF", "OFF", "OFF">>})
                 \cup Caches({"clang-cl"}, {"Ninja"}, {<<"OFF", "ON", "OFF">>}),
                 {FALSE})

\* runs without prompts over a configured directory of a Windows host
WindowsWorkspaceRuns ==
    {<<a, h, f>> : a \in {NonInteractive, [NonInteractive EXCEPT !.skip_configure = TRUE],
                          [NonInteractive EXCEPT !.type = "Release"]},
                   h \in WindowsHosts, f \in WindowsWorkspaces}

\* a Linux host with one tool chain
PlainHost == UnixHost("Linux", {"cmake"} \cup GCC \cup {"ninja"}, AllScripts)

\* runs with prompts over a configured directory and --platform or --skip-configure
ModeSelectionRuns ==
    {<<a, PlainHost, f>> :
        a \in {[DefaultArgs EXCEPT !.platform = v] : v \in PlatformChoices}
              \cup {[DefaultArgs EXCEPT !.skip_configure = TRUE]},
        f \in LinuxWorkspaces}

\* runs with --type and --skip-configure or --clean over a configured directory
TypeArgs ==
    {[DefaultArgs EXCEPT !.type = t, !.skip_configure = s, !.clean = ~s,
                         !.no_interactive = n] :
        t \in BuildTypes, s \in BOOLEAN, n \in BOOLEAN}

TypeRuns == {<<a, PlainHost, f>> : a \in TypeArgs, f \in LinuxWorkspaces}

\* a file system with several configured directories, of two platforms
ManyWorkspaces ==
    LET cache == CHOOSE c \in Caches({"g++"}, {"Ninja"}, {<<"OFF", "OFF", "OFF">>}) : TRUE
    IN [EmptyFs EXCEPT ![<<"release", "linux">>] = Workspace(cache, FALSE, 1),
                       ![<<"relwithdebinfo", "linux">>] = Workspace(cache, FALSE, 2),
                       ![<<"debug", "linux">>] = Workspace(cache, FALSE, 3),
                       ![<<"debug", "macos">>] = Workspace(cache, FALSE, 4)]

\* runs over several configured directories, with the selection and without
ManyWorkspacesRuns ==
    {<<a, PlainHost, ManyWorkspaces>> :
        a \in {DefaultArgs, NonInteractive, [NonInteractive EXCEPT !.skip_configure = TRUE]}}

Runs ==
    BatchRuns \cup BatchWorkspaceRuns \cup InteractiveRuns \cup SelectionRuns
    \cup OptionRuns \cup ScenarioBRuns \cup WindowsWorkspaceRuns
    \cup ModeSelectionRuns \cup TypeRuns \cup ManyWorkspacesRuns

Init ==
    /\ \E r \in Runs : cli = r[1] /\ host = r[2] /\ fs = r[3]
    /\ fs0 = fs
    /\ pc = "start"
    /\ args_type = cli.type
    /\ build_dir = NoDir
    /\ build_type = IF cli.type # None THEN cli.type ELSE "Release"
    /\ needs_configure = FALSE
    /\ cmd = NoCmd
    /\ config = NoConfig
    /\ environ = HostEnvironment(host)
    /\ rc = -1
    /\ exit_code = -1
    /\ handed = <<>>
    /\ built = <<>>
    /\ log = <<>>
    /\ cancelled = {}
    /\ subproc = NoRuns
    /\ bootstrap = <<>>
    /\ cache_file = NoCacheFile
    /\ cache_dict = NotRead

Next ==
    \/ Format
    \/ SelectBuildDirInteractive
    \/ FindBuildDir
    \/ Dispatch
    \/ RunConfigure
    \/ ConfigureReturn
    \/ BuildProject
    \/ Lint
    \/ ConfigureMain
    \/ SelectModules
    \/ SelectTestsExamples
    \/ SelectBuildType
    \/ SelectCompiler
    \/ SetupCompiler
    \/ SelectBuildSystem
    \/ SetupBuildSystem
    \/ NonInteractiveDefaults
    \/ SetupMsvcEnvironment
    \/ SetupConan
    \/ CMakeConfigure

Spec == Init /\ [][Next]_vars

----------------------------------------------------------------------------
(* The cache reader alone: read_cmake_cache on the text of a CMakeCache.txt *)

\* the lines that the cache files of these runs are made of
CacheLines ==
    {<<>>,
     <<" ">>,
     <<"#", "K", ":", "T", "=", "v">>,
     <<"/", "/", "K", ":", "T", "=", "v">>,
     <<"K", ":", "T", "=", "v">>,
     <<"K", ":", "T", "=", "w">>,
     <<"J", ":", "T", "=", "v">>,
     <<" ", "J", ":", "T", "=", "w", " ">>,
     <<"K", ":", "T", "=">>,
     <<"K", ":", "T", "=", "a", "=", "b">>,
     <<"K", ":", "T">>,
     <<"K", "=", "v">>,
     <<"J", "=", "w">>,
     <<"K", "=", "v", ":", "w">>,
     <<":", "T", "=", "v">>}

RECURSIVE TextsUpTo(_)
TextsUpTo(n) ==
    IF n = 0 THEN {<<>>}
    ELSE LET shorter == TextsUpTo(n - 1)
         IN shorter \cup {Append(t, l) : t \in shorter, l \in CacheLines}

CacheFiles ==
    {NoCacheFile}
    \cup {[exists |-> TRUE, readable |-> FALSE, lines |-> t] : t \in TextsUpTo(1)}
    \cup {[exists |-> TRUE, readable |-> TRUE, lines |-> t] : t \in TextsUpTo(MaxLines)}

InitCache ==
    /\ cli = DefaultArgs /\ host = PlainHost /\ fs = EmptyFs /\ fs0 = EmptyFs
    /\ pc = "read_cmake_cache"
    /\ args_type = None /\ build_dir = NoDir /\ build_type = "Release"
    /\ needs_configure = FALSE /\ cmd = NoCmd /\ config = NoConfig
    /\ environ = HostEnvironment(host)
    /\ rc = -1 /\ exit_code = -1
    /\ handed = <<>> /\ built = <<>> /\ log = <<>> /\ cancelled = {}
    /\ subproc = NoRuns /\ bootstrap = <<>>
    /\ cache_file \in CacheFiles
    /\ cache_dict = NotRead

CacheReaderUnchanged ==
    UNCHANGED <<cli, host, fs, fs0, args_type, build_dir, build_type, needs_configure,
                cmd, config, environ, rc, exit_code, handed, built, log, cancelled,
                subproc, bootstrap>>

\* build.py calls read_cmake_cache
BuildReadsCache ==
    /\ pc = "read_cmake_cache"
    /\ cache_dict' = [reader |-> "build.py", dict |-> Build_read_cmake_cache(cache_file)]
    /\ pc' = "cache_read"
    /\ UNCHANGED cache_file
    /\ CacheReaderUnchanged

\* configure.py calls read_cmake_cache
ConfigureReadsCache ==
    /\ pc = "read_cmake_cache"
    /\ cache_dict' = [reader |-> "configure.py", dict |-> Configure_read_cmake_cache(cache_file)]
    /\ pc' = "cache_read"
    /\ UNCHANGED cache_file
    /\ CacheReaderUnchanged

NextCache == BuildReadsCache \/ ConfigureReadsCache

SpecCache == InitCache /\ [][NextCache]_vars

----------------------------------------------------------------------------
(* Properties *)

Finished == pc = "done"

\* what detection reports about compiler c on host h
CompilerDetected(h, c) ==
    LET env == HostEnvironment(h)
    IN CASE c = "gcc" -> h.system # "Windows" /\ detect_gcc(env)
         [] c = "clang" -> detect_clang(h, env).found
         [] c = "clang-cl" -> h.system = "Windows" /\ detect_clang(h, env).variant = "clang-cl"
         [] c \in {"msvc", "cl"} -> detect_msvc(h, env).found
         [] OTHER -> FALSE

\* what detection reports about generator g on host h
BackendDetected(h, g) ==
    LET env == HostEnvironment(h)
    IN CASE g = "Ninja" -> detect_ninja(env)
         [] g \in {"Make", "Unix Makefiles"} -> detect_make(env)
         [] g \in {"Visual Studio 17 2022", "Visual Studio 16 2019",
                   "Visual Studio 15 2017"} -> detect_msbuild(h, env).generator = g
         [] OTHER -> FALSE

\* nothing was handed to cmake and no build directory was touched
NothingDone == handed = <<>> /\ built = <<>> /\ fs = fs0

Logged(e) == \E i \in 1..Len(log) : log[i] = e

\* Scenario B: --type Debug --compiler X, configuration not skipped
ScenarioB ==
    cli.type = "Debug" /\ cli.compiler # None /\ ~cli.skip_configure

\* C3: in Scenario B with a compiler X that detection does not report, cmake is
\* never invoked, no build directory is created, cleaned or changed, and the run
\* ends with exit code 1, with and without prompts and --clean
C3_ScenarioB ==
    (ScenarioB /\ ~CompilerDetected(host, cli.compiler)) =>
        /\ NothingDone
        /\ Finished => exit_code = 1

\* an interactive --clean run over a configured Debug directory was rejected by
\* the validation of the compiler
C3_Witness ==
    /\ ScenarioB /\ ~CompilerDetected(host, cli.compiler)
    /\ ~cli.no_interactive /\ cli.clean
    /\ is_configured(fs0, get_build_dir(host.system, "Debug"))
    /\ Logged("prompt:tests") /\ cancelled = {}
    /\ Finished /\ rc = 1 /\ exit_code = 1

\* C8: after a cancel at a prompt of the build directory selection (the first
\* prompt or the one that asks which build to reconfigure) the run ends with
\* exit code 0, configure.py and cmake are not invoked, no directory changes
C8_CancelAtSelection ==
    (cancelled \cap {"prompt:select", "prompt:reconfigure"} # {}) =>
        /\ Finished /\ exit_code = 0
        /\ NothingDone /\ ~Logged("configure.py")

\* the prompts of configure.py
ConfigurationPrompts ==
    {"prompt:modules", "prompt:tests", "prompt:examples", "prompt:build_type",
     "prompt:compiler", "prompt:build_system", "prompt:use_conan", "prompt:reinstall",
     "prompt:run_install", "prompt:clean"}

\* C9: after a cancel at a prompt of configure.py cmake is not invoked, no
\* directory is created or cleaned, and the run ends with a failure exit code
C9_CancelAtConfiguration ==
    (cancelled \cap ConfigurationPrompts # {}) =>
        /\ NothingDone
        /\ Finished => exit_code > 0

CompilerPriority(system) ==
    IF system = "Windows" THEN <<"msvc", "clang-cl", "clang">> ELSE <<"gcc", "clang">>

BackendPriority(system) ==
    IF system = "Windows"
    THEN <<"Ninja", "Visual Studio 17 2022", "Visual Studio 16 2019", "Visual Studio 15 2017">>
    ELSE <<"Ninja", "Unix Makefiles">>

\* the first element of seq that satisfies Ok, None if there is none
FirstThat(seq, Ok(_)) ==
    LET found == {i \in 1..Len(seq) : Ok(seq[i])}
    IN IF found = {} THEN None ELSE seq[CHOOSE i \in found : \A j \in found : i <= j]

HighestCompiler(h) == FirstThat(CompilerPriority(h.system), LAMBDA c : CompilerDetected(h, c))
HighestBackend(h) == FirstThat(BackendPriority(h.system), LAMBDA g : BackendDetected(h, g))

\* Scenario A: no arguments but --no-interactive, no build directory
ScenarioA == cli = NonInteractive /\ fs0 = EmptyFs

\* what Scenario A hands to cmake
ScenarioAResolution ==
    \A i \in 1..Len(handed) :
        /\ handed[i].config.build_type = "Release"
        /\ handed[i].config.compiler = HighestCompiler(host)
        /\ handed[i].config.build_system = HighestBackend(host)

BootstrapFailed ==
    \E i \in 1..Len(bootstrap) :
        /\ bootstrap[i].step = "configure"
        /\ bootstrap[i].outcome \in
               {"vs_not_found", "script_not_found", "script_failed", "tool_missing"}

\* C5 as stated: Scenario A resolves Release, the highest-priority detected
\* compiler and the highest-priority detected backend, and the run fails only
\* if no compiler or no backend is detected
C5_FailsOnlyWithoutToolchain ==
    ScenarioA =>
        /\ ScenarioAResolution
        /\ (Finished /\ exit_code # 0) =>
               HighestCompiler(host) = None \/ HighestBackend(host) = None

\* C5 as amended: Scenario A resolves Release, the highest-priority detected
\* compiler and the highest-priority detected backend, and the run fails only
\* if no compiler or no backend is detected, cmake or configure.py is missing,
\* the environment bootstrap fails, or cmake exits with a status other than 0
C5_ScenarioA ==
    ScenarioA =>
        /\ ScenarioAResolution
        /\ (Finished /\ exit_code # 0) =>
               \/ HighestCompiler(host) = None \/ HighestBackend(host) = None
               \/ ~check_command(HostEnvironment(host), "cmake")
               \/ "configure.py" \notin host.scripts
               \/ BootstrapFailed
               \/ subproc.cmake_configure > 0 \/ subproc.cmake_build > 0

\* Scenario A on a Windows host with MSVC, clang and Ninja resolved MSVC and
\* Ninja and was built
C5_Witness ==
    /\ ScenarioA /\ host.system = "Windows"
    /\ CompilerDetected(host, "clang") /\ Len(handed) = 1
    /\ handed[1].config.compiler = "msvc" /\ handed[1].config.build_system = "Ninja"
    /\ handed[1].config.build_type = "Release"
    /\ Finished /\ exit_code = 0

\* C4: whatever is handed to cmake names a compiler and a generator that
\* detection reports on the host
C4_ResolvedAreDetected ==
    \A i \in 1..Len(handed) :
        /\ CompilerDetected(host, handed[i].config.compiler)
        /\ BackendDetected(host, handed[i].config.build_system)

\* cl is another name of msvc
CompilerId(c) == IF c = "cl" THEN "msvc" ELSE c

\* C1: a value given on the command line for build type, compiler, generator,
\* core-only, tests, examples or Conan is the value handed to cmake
C1_ExplicitWins ==
    \A i \in 1..Len(handed) :
        LET c == handed[i].config
        IN /\ cli.type # None => c.build_type = cli.type
           /\ cli.compiler # None => c.compiler = CompilerId(cli.compiler)
           /\ cli.build_system # None => c.build_system = cli.build_system
           /\ cli.core_only => c.core_only = "True"
           /\ cli.build_tests # None => c.build_tests = cli.build_tests
           /\ cli.build_examples # None => c.build_examples = cli.build_examples
           /\ cli.use_conan # None => c.use_conan = cli.use_conan

\* the compiler a cached CMAKE_CXX_COMPILER names, by the name of the executable
CachedCompilerId(cxx) ==
    LET name == PathName(cxx)
    IN IF name = S_gpp THEN "gcc"
       ELSE IF name = S_clangpp THEN "clang"
       ELSE IF name = S_clang_cl THEN "clang-cl"
       ELSE IF name = S_cl_exe THEN "msvc"
       ELSE None

OnIsTrue(v) == IF v = "ON" THEN "True" ELSE "False"

\* C2: when "Reconfigure existing" is chosen for a configured directory (no
\* option is given then), what is handed to cmake has the compiler, generator,
\* core-only, tests, examples and Conan values that the directory records
C2_CacheInherited ==
    Logged("prompt:reconfigure") =>
        \A i \in 1..Len(handed) :
            LET c == handed[i].config
                W == fs0[handed[i].dir]
            IN W.cache.present =>
                  /\ CachedCompilerId(W.cache.CMAKE_CXX_COMPILER) # None =>
                         c.compiler = CachedCompilerId(W.cache.CMAKE_CXX_COMPILER)
                  /\ c.build_system = W.cache.CMAKE_GENERATOR
                  /\ c.core_only = OnIsTrue(W.cache.HELIOS_BUILD_CORE_ONLY)
                  /\ c.build_tests = OnIsTrue(W.cache.HELIOS_BUILD_TESTS)
                  /\ c.build_examples = OnIsTrue(W.cache.HELIOS_BUILD_EXAMPLES)
                  /\ W.conan_toolchain => c.use_conan = "True"

\* no search step can find a developer script on the host
ScriptMissing(h) == ~FindVisualStudio(h) \/ h.vs_script = None

\* the build directory was configured for a compiler that needs the developer
\* environment under Ninja
BuildNeedsBootstrap ==
    /\ is_configured(fs, build_dir)
    /\ ConfigureCachedCompiler(fs[build_dir].cache.CMAKE_CXX_COMPILER) \in {"msvc", "clang-cl"}
    /\ fs[build_dir].cache.CMAKE_GENERATOR = "Ninja"

\* C10: when the environment bootstrap is required and no search step finds the
\* developer script, cmake is not invoked afterwards and the run ends with
\* exit code 1
C10_ScenarioD ==
    \A i \in 1..Len(bootstrap) :
        (bootstrap[i].outcome \in ScriptNotFound /\ ScriptMissing(host)) =>
            IF bootstrap[i].step = "configure"
            THEN handed = <<>> /\ built = <<>> /\ (Finished => exit_code = 1)
            ELSE BuildNeedsBootstrap => (built = <<>> /\ (Finished => exit_code = 1))

\* C6 as stated: a backend status s is the orchestrator's exit code, 0 included
C6_StatusVerbatim ==
    (Finished /\ subproc.cmake_build >= 0) => exit_code = subproc.cmake_build

\* C6 as amended: a backend status other than 0 ends the run with exit code 1,
\* whatever the status, and a backend status 0 ends it with exit code 0
C6_FailureExitsOne ==
    (Finished /\ subproc.cmake_build >= 0) =>
        exit_code = IF subproc.cmake_build = 0 THEN 0 ELSE 1

\* the backend exited with 2 and the run ended with 1
C6_Witness ==
    Finished /\ subproc.cmake_build = 2 /\ exit_code = 1 /\ Len(built) = 1

----------------------------------------------------------------------------
(* The environment bootstrappers called a second time *)

\* outcomes in which a bootstrapper reports success
BootstrapSucceeded == {"not_needed", "fast_path", "imported"}

\* os.environ of the process after a call: configure.py writes what it imports
\* into os.environ, build.py writes it into a copy and leaves os.environ alone
ProcessEnvironmentAfter(b) == IF b.step = "configure" THEN b.after ELSE b.before

\* the executable whose presence the fast path of a bootstrapper tests
RequiredTool(b) ==
    IF b.step = "configure" /\ config.compiler = "clang-cl" THEN "mt" ELSE "cl"

\* the same bootstrapper called again in the same process
SecondCall(b, status, dump) ==
    IF b.step = "configure"
    THEN LET r == Configure_setup_msvc_environment(
                      host, config, ProcessEnvironmentAfter(b), status, dump)
         IN [outcome |-> r.outcome, env |-> r.env]
    ELSE Build_setup_msvc_environment(host, ProcessEnvironmentAfter(b), status, dump)

\* C11: after a call of a bootstrapper that succeeded, the required tool is
\* resolvable in the process environment, and a second call with the same
\* configuration takes the fast path: it runs no developer script, whatever
\* the script would do, and leaves the environment as it is
C11_BootstrapIdempotent ==
    \A i \in 1..Len(bootstrap) :
        LET b == bootstrap[i]
            proc == ProcessEnvironmentAfter(b)
        IN b.outcome \in BootstrapSucceeded =>
              /\ b.outcome # "not_needed" => check_command(proc, RequiredTool(b))
              /\ \A status \in Statuses, dump \in ScriptDumps(proc) :
                     LET r == SecondCall(b, status, dump)
                     IN /\ r.outcome \in {"not_needed", "fast_path"}
                        /\ r.env = proc

----------------------------------------------------------------------------
(* When a failed bootstrap ends the configuration *)

\* the resolved tool chain needs the developer environment: MSVC or clang-cl
\* with Ninja on Windows
NeedsBootstrap(h, cfg) ==
    /\ h.system = "Windows"
    /\ cfg.build_system = "Ninja"
    /\ cfg.compiler \in {"msvc", "clang-cl"}

\* C12: configure.py exits with 1 because of the bootstrap only when the
\* platform is Windows, the generator is Ninja and the compiler is MSVC or
\* clang-cl, and then every failed bootstrap ends it before cmake is invoked;
\* for every other combination the bootstrap step reports success, runs no
\* developer script, leaves the environment alone, and configure.py can then
\* fail only because cmake fails
C12_BootstrapFatalWhenRequired ==
    \A i \in 1..Len(bootstrap) :
        LET b == bootstrap[i]
        IN b.step = "configure" =>
              /\ ~NeedsBootstrap(host, config) =>
                     /\ b.outcome = "not_needed"
                     /\ subproc.vcvars = -1
                     /\ b.after = b.before
              /\ b.outcome \notin BootstrapSucceeded =>
                     /\ NeedsBootstrap(host, config)
                     /\ pc \in {"cfg_exit", "done"} /\ rc = 1
                     /\ handed = <<>> /\ subproc.install_deps = -1
              /\ (b.outcome \in BootstrapSucceeded /\ rc > 0) =>
                     subproc.cmake_configure > 0

\* clang-cl with Ninja on a Windows host whose Visual Studio holds no developer
\* script: the bootstrap failed and the run ended with exit code 1
C12_Witness ==
    /\ NeedsBootstrap(host, config) /\ config.compiler = "clang-cl"
    /\ Len(bootstrap) = 1 /\ bootstrap[1].step = "configure"
    /\ bootstrap[1].outcome = "script_not_found"
    /\ Finished /\ rc = 1 /\ exit_code = 1 /\ handed = <<>>

----------------------------------------------------------------------------
(* The workspace key *)

\* the configurations that differ from cfg in one of the module flags, the
\* compiler, the generator or the Conan setting, and cfg itself
SameKeyConfigs(cfg) ==
    {[cfg EXCEPT !.core_only = v] : v \in {"True", "False"}}
    \cup {[cfg EXCEPT !.build_tests = v] : v \in {"True", "False"}}
    \cup {[cfg EXCEPT !.build_examples = v] : v \in {"True", "False"}}
    \cup {[cfg EXCEPT !.compiler = v, !.cxx_compiler = CxxOf(v)] :
              v \in {"gcc", "clang", "clang-cl", "msvc"}}
    \cup {[cfg EXCEPT !.build_system = v] : v \in GeneratorChoices}
    \cup {[cfg EXCEPT !.use_conan = v] : v \in {"True", "False"}}

\* C13: the directory of a configuration handed to cmake is decided by its
\* build type and the platform alone: every configuration with the same build
\* type on the same platform, whatever its module flags, compiler, generator
\* and Conan setting, has that directory (for configure.py and for build.py),
\* and every configuration with another build type or on another platform has
\* another directory
C13_WorkspaceKey ==
    \A i \in 1..Len(handed) :
        LET c == handed[i].config
            d == handed[i].dir
        IN /\ d = Config_get_build_dir(host.system, c)
           /\ d = get_build_dir(host.system, c.build_type)
           /\ \A c2 \in SameKeyConfigs(c) : Config_get_build_dir(host.system, c2) = d
           /\ \A bt \in BuildTypes, system \in Systems :
                  (bt # c.build_type \/ system # host.system) =>
                      /\ Config_get_build_dir(system, [c EXCEPT !.build_type = bt]) # d
                      /\ get_build_dir(system, bt) # d

\* a Debug configuration was handed to cmake for the Debug directory of a
\* macOS host
C13_Witness ==
    /\ Len(handed) = 1 /\ host.system = "Darwin"
    /\ handed[1].config.build_type = "Debug"
    /\ handed[1].dir = <<"debug", "macos">>
    /\ fs[handed[1].dir].exists

----------------------------------------------------------------------------
(* Validation failures *)

\* setup_compiler is about to reject the compiler of the configuration
CompilerRejected ==
    pc = "setup_compiler" /\ ~setup_compiler(host, config, environ, fs, "").ok

\* setup_build_system is about to reject the generator of the configuration
BuildSystemRejected ==
    pc = "setup_build_system" /\ ~setup_build_system(host, config, environ, "").ok

\* C14: when the compiler or the generator fails validation, a run with
\* prompts goes back to resolving the same field and configure.py does not
\* exit; a run without prompts ends configure.py at once with exit code 1
C14_ValidationFailure ==
    [][/\ CompilerRejected =>
              IF config.interactive
              THEN rc' = rc /\ pc' \in {"select_compiler", "setup_compiler"}
              ELSE rc' = 1 /\ pc' = "cfg_exit"
       /\ BuildSystemRejected =>
              IF config.interactive
              THEN rc' = rc /\ pc' \in {"select_build_system", "setup_build_system"}
              ELSE rc' = 1 /\ pc' = "cfg_exit"]_vars

----------------------------------------------------------------------------
(* The target platform option *)

\* C15: when --platform P is given and configure.py is started, configure.py
\* accepts its command line (it does not end with the usage error, status 2),
\* and every directory that is configured or built is the one of platform P
C15_PlatformFlag ==
    (cli.platform # None /\ Logged("configure.py")) =>
        /\ rc # 2
        /\ \A i \in 1..Len(handed) : handed[i].dir[2] = cli.platform
        /\ \A i \in 1..Len(built) : built[i].dir[2] = cli.platform

----------------------------------------------------------------------------
(* The optional post-step *)

\* C16: when cmake --build succeeded and --lint was given, the run ends with
\* exit code 0, whether lint.py exits with 0, exits with another status or
\* does not exist
C16_LintDoesNotChangeExit ==
    (Finished /\ cli.lint /\ subproc.cmake_build = 0) => exit_code = 0

\* lint.py ran after a successful build and reported issues; the run ended
\* with exit code 0
C16_Witness ==
    /\ Finished /\ cli.lint /\ subproc.cmake_build = 0
    /\ subproc.lint = 2 /\ Logged("lint.py")
    /\ exit_code = 0

----------------------------------------------------------------------------
(* The merge of the imported environment *)

----------------------------------------------------------------------------
(* Detection, looked at on its own *)

\* the executables of the Visual Studio installation that vswhere reports: it
\* is asked for an installation that has the VC tools component
VisualStudioTools(h) ==
    IF h.vs = "vswhere" /\ h.vs_script = "vcvarsall.bat"
    THEN VCTools \cup {"msbuild"} ELSE {}

\* the executables that can be resolved on the host: on PATH, in the LLVM
\* directories that are searched, in the Visual Studio installation
Resolvable(h, env) == env.PATH \cup h.llvm_bin \cup VisualStudioTools(h)

\* what each detection reports is backed by its executables
DetectionSound(h, env) ==
    LET c == detect_clang(h, env)
        tools == Resolvable(h, c.env)
    IN /\ detect_gcc(env) => {"gcc", "g++"} \subseteq tools
       /\ (c.found /\ c.variant = "clang-cl") => "clang-cl" \in c.env.PATH
       /\ (c.found /\ c.variant = "clang") => {"clang", "clang++"} \subseteq c.env.PATH
       /\ c.found => c.variant \in {"clang", "clang-cl"}
       /\ detect_msvc(h, env).found => "cl" \in tools
       /\ detect_ninja(env) => "ninja" \in tools
       /\ detect_make(env) => tools \cap {"make", "mingw32-make"} # {}
       /\ detect_msbuild(h, env).found => "msbuild" \in tools

\* a detection called again, in the environment the first call leaves, reports
\* what the first call reported
DetectionIdempotent(h, env) ==
    LET c == detect_clang(h, env)
        again == detect_clang(h, c.env)
    IN /\ again.found = c.found /\ again.variant = c.variant /\ again.env = c.env
       /\ detect_gcc(c.env) = detect_gcc(env)
       /\ detect_msvc(h, c.env) = detect_msvc(h, env)
       /\ detect_ninja(c.env) = detect_ninja(env)
       /\ detect_make(c.env) = detect_make(env)
       /\ detect_msbuild(h, c.env) = detect_msbuild(h, env)

----------------------------------------------------------------------------
(* Order of bootstrap and tool invocations; who changes the environment *)

\* C19: when what is configured needs the developer environment, install_deps.py
\* and cmake are invoked by configure.py only after a bootstrap that succeeded,
\* with the required tool on the PATH they get; when what is built needs it,
\* `cmake --build` is invoked only after a bootstrap of build.py that
\* succeeded, with cl on the PATH it is given
C19_BootstrapBeforeTools ==
    /\ (NeedsBootstrap(host, config)
            /\ (subproc.install_deps >= 0 \/ subproc.cmake_configure >= 0)) =>
           /\ \E i \in 1..Len(bootstrap) :
                  /\ bootstrap[i].step = "configure"
                  /\ bootstrap[i].outcome \in {"fast_path", "imported"}
           /\ check_command(environ, IF config.compiler = "clang-cl" THEN "mt" ELSE "cl")
    /\ \A i \in 1..Len(bootstrap) :
           (bootstrap[i].step = "build" /\ BuildNeedsBootstrap /\ built # <<>>) =>
               /\ bootstrap[i].outcome \in {"fast_path", "imported"}
               /\ check_command(bootstrap[i].after, "cl")

\* C20: the environment of configure.py is the one it was started with until
\* the bootstrap, and from then on the one the bootstrap left: no detection of
\* a compiler, a generator or Conan changes a variable, PATH included
C20_OnlyBootstrapMutates ==
    \/ environ = HostEnvironment(host)
    \/ \E i \in 1..Len(bootstrap) :
           /\ bootstrap[i].step = "configure"
           /\ bootstrap[i].before = HostEnvironment(host)
           /\ environ = bootstrap[i].after

----------------------------------------------------------------------------
(* Workspace selection, enumeration and the orchestrator's transitions *)

\* a configuration flag of build.py is on the command line: build type, compiler,
\* backend, target platform, module flags, dependency-manager flag or clean
ConfigurationFlagGiven ==
    \/ cli.type # None
    \/ cli.compiler # None
    \/ cli.build_system # None
    \/ cli.platform # None
    \/ cli.core_only
    \/ cli.build_tests # None
    \/ cli.build_examples # None
    \/ cli.use_conan # None
    \/ cli.clean

ConfiguredAtStart == \E d \in Dirs : is_configured(fs0, d)

\* configure.py and the backend build are started only after the selection prompt
SelectionShownFirst ==
    \A i \in 1..Len(log) :
        log[i] \in {"configure.py", "cmake_build"} =>
            \E j \in 1..(i - 1) : log[j] = "prompt:select"

\* C21: with a configuration flag on the command line the workspace selection
\* prompt is never shown; with none, in interactive mode and with a configured
\* workspace, nothing is configured or built before the selection prompt is shown
C21_SelectionSkippedExactly ==
    /\ ConfigurationFlagGiven => ~Logged("prompt:select")
    /\ (~ConfigurationFlagGiven /\ ~cli.no_interactive /\ ConfiguredAtStart) =>
           SelectionShownFirst

\* place of a directory's build type in the order Debug, Release, RelWithDebInfo
BuildTypeRank(d) ==
    CASE d[1] = "debug" -> 1
      [] d[1] = "release" -> 2
      [] d[1] = "relwithdebinfo" -> 3

\* the list offered over the directories f: the configured directories, each
\* once, every Debug before every Release before every RelWithDebInfo
EnumerationOf(f) ==
    LET offered == find_all_configured_build_dirs(f)
    IN /\ {offered[i] : i \in 1..Len(offered)} = {d \in Dirs : is_configured(f, d)}
       /\ \A i, j \in 1..Len(offered) :
              i < j => /\ offered[i] # offered[j]
                       /\ BuildTypeRank(offered[i]) <= BuildTypeRank(offered[j])

\* C22: the list offered for selection holds exactly the configured directories
\* build/<build_type>/<platform>, each once, Debug before Release before
\* RelWithDebInfo; the directory selected is one of the list, and enumeration and
\* selection leave every directory as it was
C22_WorkspaceEnumeration ==
    /\ EnumerationOf(fs)
    /\ pc = "dispatch" =>
           /\ fs = fs0
           /\ (Logged("prompt:select") /\ build_dir # NoDir) =>
                  \E i \in 1..Len(find_all_configured_build_dirs(fs0)) :
                      find_all_configured_build_dirs(fs0)[i] = build_dir

\* a Debug directory selected from a list of four that iterdir() gives in
\* another order
C22_Witness ==
    /\ pc = "dispatch" /\ Logged("prompt:select")
    /\ Len(find_all_configured_build_dirs(fs0)) = 4
    /\ IterdirOrder[1][1] = "release"
    /\ build_dir = find_all_configured_build_dirs(fs0)[1]
    /\ build_dir[1] = "debug"

\* how often e is in the log
RECURSIVE Count(_, _)
Count(l, e) ==
    IF l = <<>> THEN 0 ELSE (IF Head(l) = e THEN 1 ELSE 0) + Count(Tail(l), e)

\* C23: in every step of a run, configure.py has been started at most once and
\* the backend build at most once, the backend build starts only when the
\* configuration step of the run (if there was one) has returned success, and a
\* run that has ended takes no further step
C23_ForwardOnly ==
    [][/\ pc # "done"
       /\ Count(log', "configure.py") <= 1
       /\ Count(log', "cmake_build") <= 1
       /\ Len(built') <= 1
       /\ Logged("cmake_build")' /\ ~Logged("cmake_build") =>
              (Logged("configure.py") => rc = 0 /\ subproc.cmake_configure = 0)]_vars

\* a run that configured, built and ended with success
C23_Witness ==
    /\ Finished /\ exit_code = 0
    /\ Count(log, "configure.py") = 1 /\ Count(log, "cmake_build") = 1
    /\ rc = 0

----------------------------------------------------------------------------
(* Resolution order, clean, backend selection *)

CompilerSettled(cfg) == cfg.compiler # None /\ cfg.cxx_compiler # None

\* the build system is set and setup_build_system has looked at it ("Make" is
\* the name select_build_system_interactive leaves for setup_build_system)
BackendSettled(cfg) == cfg.build_system \notin {None, "Make"}

ModulesSettled(cfg) == cfg.core_only # None

FlagsSettled(cfg) == cfg.build_tests # None /\ cfg.build_examples # None

\* place of a prompt or tool of configure.py in the resolution order
ResolutionRank(e) ==
    CASE e = "prompt:modules" -> 1
      [] e \in {"prompt:tests", "prompt:examples"} -> 2
      [] e = "prompt:build_type" -> 3
      [] e = "prompt:compiler" -> 4
      [] e = "prompt:build_system" -> 5
      [] e \in {"prompt:use_conan", "prompt:reinstall", "prompt:run_install",
                "install_deps.py"} -> 6
      [] e \in {"prompt:clean", "cmake_configure"} -> 7
      [] OTHER -> 0

DependencyManagerConsulted ==
    \E i \in 1..Len(log) :
        log[i] \in {"prompt:use_conan", "prompt:reinstall", "prompt:run_install",
                    "install_deps.py"}

BootstrapDecided == \E i \in 1..Len(bootstrap) : bootstrap[i].step = "configure"

CleanConfirmed == Logged("prompt:clean") /\ "prompt:clean" \notin cancelled

\* C25: when --clean is given and configure.py gets as far as running cmake, the
\* directory of the resolved (build type, platform) has been emptied before,
\* with the dependency manager's toolchain in use or not; and a directory is
\* emptied only when --clean was given or the clean prompt was confirmed
C25_CleanHonoured ==
    \A i \in 1..Len(handed) :
        /\ cmd.clean => handed[i].cleaned
        /\ handed[i].cleaned => (cmd.clean \/ CleanConfirmed)

\* the build system that the menu of select_build_system_interactive names for
\* an answer on Linux and macOS: "1) Make", "2) Ninja (faster, default)"
MenuBackend(choice) == IF choice = "1" THEN "Make" ELSE "Ninja"

\* C26: on Linux and macOS with Ninja and Make both found, the interactive
\* selection sets the build system the menu names for the answer: Make for 1,
\* Ninja for 2 and for the empty answer
C26_BackendOfChoice ==
    (/\ pc = "select_build_system"
     /\ host.system # "Windows"
     /\ config.build_system = None
     /\ BuildSystemPromptShown(host, environ)) =>
        \A choice \in {"1", "2", ""} :
            select_build_system_interactive(host, config, environ, choice).config.build_system
                = MenuBackend(choice)

\* C28: whenever the backend build is started on directory D with build type T,
\* D is configured and the build type component of D is the lower case of T
C28_BuildDirMatchesType ==
    \A i \in 1..Len(built) :
        /\ is_configured(fs, built[i].dir)
        /\ built[i].dir[1] = LowerBuildType(built[i].build_type)

\* configure.py is running
Configuring ==
    pc \in {"cfg_main", "modules", "tests_examples", "build_type", "select_compiler",
            "defaults", "setup_compiler", "select_build_system", "setup_build_system",
            "msvc_env", "conan", "cmake", "cfg_exit"}

\* C29: with --skip-configure the configuration step is never started, whatever
\* the other flags; and when no directory is configured the backend build is not
\* started and the run ends with exit code 1
C29_SkipConfigureBuildsOnly ==
    cli.skip_configure =>
        /\ ~Logged("configure.py") /\ ~Configuring /\ pc # "run_configure"
        /\ handed = <<>>
        /\ ~ConfiguredAtStart =>
               /\ built = <<>> /\ ~Logged("cmake_build")
               /\ Finished => exit_code = 1

\* --skip-configure with nothing configured: the run ended with exit code 1
C29_Witness ==
    /\ cli.skip_configure /\ ~ConfiguredAtStart
    /\ Finished /\ exit_code = 1 /\ built = <<>>

\* --skip-configure together with --type over a configured directory: built
C29_WitnessBuilt ==
    /\ cli.skip_configure /\ cli.type # None /\ ConfiguredAtStart
    /\ Logged("cmake_build")

----------------------------------------------------------------------------
(* The cache: compiler mapping and parsing *)

\* the compiler id of a compiler driver, by the name of its executable
DriverId(name) ==
    CASE name \in {S_gpp, S_gcc} -> "gcc"
      [] name \in {S_clangpp, S_clang} -> "clang"
      [] name = S_clang_cl -> "clang-cl"
      [] name \in {S_cl, S_cl_exe} -> "msvc"
      [] OTHER -> None

\* the directories whose cache the scripts are about to take the compiler from:
\* run_configure of build.py reads the existing build directory, setup_compiler
\* of configure.py the directory of the build type
CompilerCachesRead ==
    IF pc = "run_configure" /\ cli.compiler = None
    THEN {build_dir} \cap Dirs
    ELSE IF pc = "setup_compiler" /\ config.compiler = None
    THEN {Config_get_build_dir(host.system, config)}
    ELSE {}

\* C27: for every cached CMAKE_CXX_COMPILER whose executable is g++, gcc,
\* clang++, clang, clang-cl, cl or cl.exe, configure.py derives the id of that
\* driver, and build.py derives the same id as configure.py
C27_CachedCompilerMapping ==
    \A d \in CompilerCachesRead :
        LET cxx == read_cmake_cache(fs, d).CMAKE_CXX_COMPILER
        IN (cxx # <<>> /\ DriverId(PathName(cxx)) # None) =>
               /\ ConfigureCachedCompiler(cxx) = DriverId(PathName(cxx))
               /\ BuildCachedCompiler(cxx) = ConfigureCachedCompiler(cxx)

\* a line of a cache file without the white space around it is blank or a comment
BlankOrComment(line) ==
    \/ line = <<>>
    \/ line[1] = "#"
    \/ Len(line) >= 2 /\ line[1] = "/" /\ line[2] = "/"

\* line is key_type, "=", value with no "=" in key_type, and key is key_type up
\* to its first ":" (all of it when it has none)
IsEntry(line, key, value) ==
    \E p \in 1..Len(line) :
        /\ line[p] = "=" /\ \A q \in 1..(p - 1) : line[q] # "="
        /\ value = SubSeq(line, p + 1, Len(line))
        /\ \E c \in 1..p :
               /\ key = SubSeq(line, 1, c - 1)
               /\ \A q \in 1..(c - 1) : line[q] # ":"
               /\ c < p => line[c] = ":"

\* the key of an entry line
EntryKey(line) ==
    CHOOSE key \in {SubSeq(line, 1, n) : n \in 0..Len(line)} :
        \E n \in 0..Len(line) : IsEntry(line, key, SubSeq(line, n + 1, Len(line)))

\* the value of an entry line
EntryValue(line) ==
    CHOOSE value \in {SubSeq(line, n + 1, Len(line)) : n \in 0..Len(line)} :
        IsEntry(line, EntryKey(line), value)

\* the mapping of the entry lines at the places idx of lines: the last line of
\* a key gives its value
DictOf(lines, idx) ==
    LET key(i) == EntryKey(Strip(lines[i]))
        last(k) == CHOOSE i \in idx : key(i) = k /\ \A j \in idx : key(j) = k => j <= i
    IN [k \in {key(i) : i \in idx} |-> EntryValue(Strip(lines[last(k)]))]

\* the entry lines as the reader takes them: with an "=" and a ":"
TypedEntries(lines) ==
    {i \in 1..Len(lines) :
        LET line == Strip(lines[i])
        IN ~BlankOrComment(line) /\ (\E p \in 1..Len(line) : line[p] = "=")
           /\ (\E p \in 1..Len(line) : line[p] = ":")}

\* the entry lines of the form key=value, with a :TYPE suffix on the key or not
KeyValueEntries(lines) ==
    {i \in 1..Len(lines) :
        LET line == Strip(lines[i])
        IN ~BlankOrComment(line) /\ (\E p \in 1..Len(line) : line[p] = "=")}

Unread(file) == ~file.exists \/ ~file.readable

\* C30 as stated: reading a cache file gives the mapping of its non-blank,
\* non-comment lines of the form key=value, with or without a :TYPE suffix on
\* the key (key without the suffix, value everything after the first "=", last
\* occurrence wins); a missing or unreadable file gives the empty mapping; the
\* file is not written
C30_CacheParsing ==
    [][(pc = "read_cmake_cache" /\ pc' = "cache_read") =>
          /\ cache_file' = cache_file
          /\ cache_dict'.dict =
                 IF Unread(cache_file) THEN EmptyDict
                 ELSE DictOf(cache_file.lines, KeyValueEntries(cache_file.lines))]_vars

\* C30 amended: the lines that count are the non-blank, non-comment lines with
\* both an "=" and a ":"; a key=value line without any ":" contributes nothing
C30_TypedCacheParsing ==
    [][(pc = "read_cmake_cache" /\ pc' = "cache_read") =>
          /\ cache_file' = cache_file
          /\ cache_dict'.dict =
                 IF Unread(cache_file) THEN EmptyDict
                 ELSE DictOf(cache_file.lines, TypedEntries(cache_file.lines))]_vars

\* a file with two lines of one key has been read: the second line's value
C30_Witness ==
    /\ pc = "cache_read"
    /\ cache_file.lines = <<(<<"K", ":", "T", "=", "v">>), (<<"K", ":", "T", "=", "w">>)>>
    /\ cache_dict.reader = "configure.py"
    /\ cache_dict.dict = [k \in {<<"K">>} |-> <<"w">>]
====
